---- MODULE Spec2Model ----
(***************************************************************************)
(* Trading calculator: the numeric calculation module (lib/math/trading.ts *)
(* and lib/math/utils.ts), the prop-firm page helpers and memos, the prop  *)
(* math helpers kept at the end of app/page.tsx, the NumberField component *)
(* and the average-entry tab of the generic page.                          *)
(*                                                                         *)
(* Four specifications share the variables: Spec (one call of a library    *)
(* function), PropSpec (one evaluation of a memo of the prop-firm page),   *)
(* PageSpec (the events of the average-entry tab) and FieldSpec (the       *)
(* events of one NumberField).                                             *)
(*                                                                         *)
(* A JavaScript number is modelled as one of                               *)
(*   NaN, +Infinity, -Infinity, undefined (an omitted optional field), or  *)
(*   a finite value (n + m * MAX_SAFE_INTEGER) / d  with integers n, m, d, *)
(*   d > 0, in lowest terms.                                               *)
(* Finite arithmetic is exact (IEEE rounding and overflow to Infinity are  *)
(* not modelled, nor is the sign of zero); the special values follow IEEE  *)
(* 754 as JavaScript applies it.  MAX_SAFE_INTEGER is kept symbolic: its   *)
(* value 2^53 - 1 exceeds every 32-bit coefficient n, so the sign of       *)
(* n + m * MAX_SAFE_INTEGER is the sign of m whenever m # 0.               *)
(***************************************************************************)
EXTENDS Integers, Sequences, FiniteSets, TLC

\* op, args, ret: the operation called, its input and what it returned or
\* the memo holds; field: one NumberField and the number its parent holds;
\* page: the state of the average-entry tab of the generic page
VARIABLES op, args, ret, field, page

vars == <<op, args, ret, field, page>>

(***************************************************************************)
(* Bounds of the input sets.                                               *)
(***************************************************************************)
MaxNum == 3
MaxDen == 2
MaxLegs == 2
MaxTyped == 1
MaxText == 3

(***************************************************************************)
(* JavaScript numbers.                                                     *)
(***************************************************************************)
Abs(i) == IF i < 0 THEN -i ELSE i

Sgn(i) == IF i < 0 THEN -1 ELSE IF i > 0 THEN 1 ELSE 0

RECURSIVE GCD(_, _)
GCD(a, b) == IF b = 0 THEN a ELSE GCD(b, a % b)

\* least common multiple of two positive integers
LCM(a, b) == (a \div GCD(a, b)) * b

NaN == [k |-> "nan", n |-> 0, m |-> 0, d |-> 1]
PosInf == [k |-> "inf", n |-> 1, m |-> 0, d |-> 1]
NegInf == [k |-> "inf", n |-> -1, m |-> 0, d |-> 1]
Undefined == [k |-> "undef", n |-> 0, m |-> 0, d |-> 1]

\* the finite number (n + m * MAX_SAFE_INTEGER) / d, d # 0, in lowest terms
Fin(n, m, d) ==
    LET g == GCD(GCD(Abs(n), Abs(m)), Abs(d))
        s == Sgn(d)
    IN  [k |-> "fin", n |-> (s * n) \div g, m |-> (s * m) \div g, d |-> Abs(d) \div g]

Rat(n, d) == Fin(n, 0, d)

Zero == Rat(0, 1)
One == Rat(1, 1)

\* Number.MAX_SAFE_INTEGER
MAX_SAFE_INTEGER == Fin(0, 1, 1)

IsNaN(x) == x.k \in {"nan", "undef"}

\* Number.isFinite
isFinite(x) == x.k = "fin"

\* sign of a number that is not NaN
Sign(x) == IF x.k = "inf" THEN x.n ELSE IF x.m # 0 THEN Sgn(x.m) ELSE Sgn(x.n)

Inf(s) == IF s < 0 THEN NegInf ELSE PosInf

Neg(x) ==
    CASE IsNaN(x) -> NaN
      [] x.k = "inf" -> Inf(-x.n)
      [] OTHER -> Fin(-x.n, -x.m, x.d)

\* x + y; the fractions are brought to their least common denominator, and
\* in x * y and x / y common factors are cancelled before multiplying
Add(x, y) ==
    CASE IsNaN(x) \/ IsNaN(y) -> NaN
      [] x.k = "inf" /\ y.k = "inf" -> IF x.n = y.n THEN x ELSE NaN
      [] x.k = "inf" -> x
      [] y.k = "inf" -> y
      [] OTHER ->
            LET l == LCM(x.d, y.d)
                a == l \div x.d
                b == l \div y.d
            IN  Fin(x.n * a + y.n * b, x.m * a + y.m * b, l)

\* x - y
Sub(x, y) == Add(x, Neg(y))

\* x * y; the product of two values that both carry a MAX_SAFE_INTEGER part
\* is outside the modelled range
Mul(x, y) ==
    CASE IsNaN(x) \/ IsNaN(y) -> NaN
      [] x.k = "inf" \/ y.k = "inf" ->
            IF Sign(x) * Sign(y) = 0 THEN NaN ELSE Inf(Sign(x) * Sign(y))
      [] x.m = 0 \/ y.m = 0 ->
            LET gx == GCD(GCD(Abs(x.n), Abs(x.m)), y.d)
                gy == GCD(GCD(Abs(y.n), Abs(y.m)), x.d)
                xn == x.n \div gx
                xm == x.m \div gx
                yn == y.n \div gy
                ym == y.m \div gy
            IN  Fin(xn * yn, xn * ym + xm * yn, (x.d \div gy) * (y.d \div gx))

\* x / y; a divisor that carries a MAX_SAFE_INTEGER part is outside the
\* modelled range
Div(x, y) ==
    CASE IsNaN(x) \/ IsNaN(y) -> NaN
      [] x.k = "inf" /\ y.k = "inf" -> NaN
      [] x.k = "inf" -> Inf(IF Sign(y) < 0 THEN -x.n ELSE x.n)
      [] y.k = "inf" -> Zero
      [] Sign(y) = 0 -> IF Sign(x) = 0 THEN NaN ELSE Inf(Sign(x))
      [] y.m = 0 ->
            LET gn == GCD(GCD(Abs(x.n), Abs(x.m)), Abs(y.n))
                gd == GCD(x.d, y.d)
            IN  Fin((x.n \div gn) * (y.d \div gd), (x.m \div gn) * (y.d \div gd),
                    (x.d \div gd) * (y.n \div gn))

\* x < y, x <= y, x > y, x >= y, x === y: all false when an operand is NaN;
\* two plain fractions with different integer parts are ordered by those
\* (the difference of a large and a tiny fraction need not be formed)
Lt(x, y) ==
    /\ ~IsNaN(x)
    /\ ~IsNaN(y)
    /\ IF x.k = "inf" \/ y.k = "inf"
       THEN (x = NegInf /\ y # NegInf) \/ (y = PosInf /\ x # PosInf)
       ELSE IF x.m = 0 /\ y.m = 0 /\ (x.n \div x.d) # (y.n \div y.d)
       THEN (x.n \div x.d) < (y.n \div y.d)
       ELSE Sign(Sub(x, y)) < 0

Eq(x, y) == ~IsNaN(x) /\ ~IsNaN(y) /\ x = y

Le(x, y) == Lt(x, y) \/ Eq(x, y)

Gt(x, y) == Lt(y, x)

Ge(x, y) == Le(y, x)

\* Math.min, Math.max, Math.abs
MathMin(x, y) == IF IsNaN(x) \/ IsNaN(y) THEN NaN ELSE IF Lt(y, x) THEN y ELSE x

MathMax(x, y) == IF IsNaN(x) \/ IsNaN(y) THEN NaN ELSE IF Lt(x, y) THEN y ELSE x

MathAbs(x) == IF IsNaN(x) THEN NaN ELSE IF Sign(x) < 0 THEN Neg(x) ELSE x

\* a ?? b
Nullish(a, b) == IF a = Undefined THEN b ELSE a

(***************************************************************************)
(* lib/math/utils.ts                                                       *)
(***************************************************************************)
clamp(n, min, max) == MathMin(max, MathMax(min, n))

\* assertPositive accepting zero
assertPositive_ZeroAllowed(n) == ~(~isFinite(n) \/ Lt(n, Zero))

\* TRUE when assertPositive returns, FALSE when it throws
assertPositive(n) == ~(~isFinite(n) \/ Le(n, Zero))

\* assertNonNegative without the finiteness test
assertNonNegative_NoFiniteTest(n) == ~Lt(n, Zero)

\* TRUE when assertNonNegative returns, FALSE when it throws
assertNonNegative(n) == ~(~isFinite(n) \/ Lt(n, Zero))

\* the outcome of a call that threw
Throw == [threw |-> TRUE]

\* no component is rendered while the library is called directly
Unmounted == [mounted |-> FALSE]

(***************************************************************************)
(* lib/math/trading.ts                                                     *)
(***************************************************************************)
\* calcPnl with the gross PnL of a long on either side
calcPnl_SideIgnored(input) ==
    LET entryPrice == input.entryPrice
        exitPrice == input.exitPrice
        quantity == input.quantity
        feeRate == Nullish(input.feeRate, Zero)
        notionalEntry == Mul(entryPrice, quantity)
        notionalExit == Mul(exitPrice, quantity)
        grossPnl == Mul(Sub(exitPrice, entryPrice), quantity)
        fees == Mul(feeRate, Add(notionalEntry, notionalExit))
        netPnl == Sub(grossPnl, fees)
    IN  IF ~assertPositive(entryPrice) THEN Throw
        ELSE IF ~assertPositive(exitPrice) THEN Throw
        ELSE IF ~assertPositive(quantity) THEN Throw
        ELSE IF ~assertNonNegative(feeRate) THEN Throw
        ELSE [threw |-> FALSE,
              notionalEntry |-> notionalEntry,
              notionalExit |-> notionalExit,
              grossPnl |-> grossPnl,
              fees |-> fees,
              netPnl |-> netPnl,
              roiOnNotionalEntry |-> Div(netPnl, notionalEntry)]

\* calcPnl with the fee charged on the entry notional only
calcPnl_EntryFeeOnly(input) ==
    LET side == input.side
        entryPrice == input.entryPrice
        exitPrice == input.exitPrice
        quantity == input.quantity
        feeRate == Nullish(input.feeRate, Zero)
        notionalEntry == Mul(entryPrice, quantity)
        notionalExit == Mul(exitPrice, quantity)
        grossPnl == IF side = "long"
                    THEN Mul(Sub(exitPrice, entryPrice), quantity)
                    ELSE Mul(Sub(entryPrice, exitPrice), quantity)
        fees == Mul(feeRate, notionalEntry)
        netPnl == Sub(grossPnl, fees)
    IN  IF ~assertPositive(entryPrice) THEN Throw
        ELSE IF ~assertPositive(exitPrice) THEN Throw
        ELSE IF ~assertPositive(quantity) THEN Throw
        ELSE IF ~assertNonNegative(feeRate) THEN Throw
        ELSE [threw |-> FALSE,
              notionalEntry |-> notionalEntry,
              notionalExit |-> notionalExit,
              grossPnl |-> grossPnl,
              fees |-> fees,
              netPnl |-> netPnl,
              roiOnNotionalEntry |-> Div(netPnl, notionalEntry)]

calcPnl(input) ==
    LET side == input.side
        entryPrice == input.entryPrice
        exitPrice == input.exitPrice
        quantity == input.quantity
        feeRate == Nullish(input.feeRate, Zero)
        notionalEntry == Mul(entryPrice, quantity)
        notionalExit == Mul(exitPrice, quantity)
        grossPnl == IF side = "long"
                    THEN Mul(Sub(exitPrice, entryPrice), quantity)
                    ELSE Mul(Sub(entryPrice, exitPrice), quantity)
        fees == Mul(feeRate, Add(notionalEntry, notionalExit))
        netPnl == Sub(grossPnl, fees)
        roiOnNotionalEntry == Div(netPnl, notionalEntry)
    IN  IF ~assertPositive(entryPrice) THEN Throw
        ELSE IF ~assertPositive(exitPrice) THEN Throw
        ELSE IF ~assertPositive(quantity) THEN Throw
        ELSE IF ~assertNonNegative(feeRate) THEN Throw
        ELSE [threw |-> FALSE,
              notionalEntry |-> notionalEntry,
              notionalExit |-> notionalExit,
              grossPnl |-> grossPnl,
              fees |-> fees,
              netPnl |-> netPnl,
              roiOnNotionalEntry |-> roiOnNotionalEntry]

\* the loop of calcAvgEntry over legs[i..], from the running totals acc
RECURSIVE calcAvgEntryLoop(_, _, _)
calcAvgEntryLoop(legs, i, acc) ==
    IF i > Len(legs) THEN acc
    ELSE IF ~assertPositive(legs[i].price) THEN Throw
    ELSE IF ~assertPositive(legs[i].quantity) THEN Throw
    ELSE calcAvgEntryLoop(legs, i + 1,
            [threw |-> FALSE,
             totalQty |-> Add(acc.totalQty, legs[i].quantity),
             totalCost |-> Add(acc.totalCost, Mul(legs[i].price, legs[i].quantity))])

\* calcAvgEntry dividing the total cost by the number of legs
calcAvgEntry_PerLeg(legs) ==
    IF Len(legs) = 0 THEN Throw
    ELSE LET tot == calcAvgEntryLoop(legs, 1,
                        [threw |-> FALSE, totalQty |-> Zero, totalCost |-> Zero])
         IN  IF tot.threw THEN Throw
             ELSE [threw |-> FALSE,
                   totalQty |-> tot.totalQty,
                   totalCost |-> tot.totalCost,
                   avgPrice |-> Div(tot.totalCost, Rat(Len(legs), 1))]

calcAvgEntry(legs) ==
    IF Len(legs) = 0 THEN Throw
    ELSE LET tot == calcAvgEntryLoop(legs, 1,
                        [threw |-> FALSE, totalQty |-> Zero, totalCost |-> Zero])
         IN  IF tot.threw THEN Throw
             ELSE [threw |-> FALSE,
                   totalQty |-> tot.totalQty,
                   totalCost |-> tot.totalCost,
                   avgPrice |-> Div(tot.totalCost, tot.totalQty)]

\* the default maintenance margin rate, 0.005
DEFAULT_MMR == Rat(5, 1000)

\* calcLiquidationPrice with the margin rate subtracted on the long side
calcLiquidationPrice_LongMmrSign(input) ==
    LET side == input.side
        entryPrice == input.entryPrice
        leverage == input.leverage
        mmr == Nullish(input.mmr, DEFAULT_MMR)
        invLev == Div(One, leverage)
        liq == IF side = "long"
               THEN MathMin(Mul(entryPrice, Sub(Sub(One, invLev), mmr)), entryPrice)
               ELSE MathMax(Mul(entryPrice, Sub(Add(One, invLev), mmr)), entryPrice)
    IN  IF ~assertPositive(entryPrice) THEN Throw
        ELSE IF ~assertPositive(leverage) THEN Throw
        ELSE IF ~assertNonNegative(mmr) THEN Throw
        ELSE [threw |-> FALSE,
              liquidationPrice |-> clamp(liq, Zero, MAX_SAFE_INTEGER),
              assumptions |-> [mmr |-> mmr, simplified |-> TRUE]]

calcLiquidationPrice(input) ==
    LET side == input.side
        entryPrice == input.entryPrice
        leverage == input.leverage
        mmr == Nullish(input.mmr, DEFAULT_MMR)
        invLev == Div(One, leverage)
        liq == IF side = "long"
               THEN MathMin(Mul(entryPrice, Add(Sub(One, invLev), mmr)), entryPrice)
               ELSE MathMax(Mul(entryPrice, Sub(Add(One, invLev), mmr)), entryPrice)
    IN  IF ~assertPositive(entryPrice) THEN Throw
        ELSE IF ~assertPositive(leverage) THEN Throw
        ELSE IF ~assertNonNegative(mmr) THEN Throw
        ELSE [threw |-> FALSE,
              liquidationPrice |-> clamp(liq, Zero, MAX_SAFE_INTEGER),
              assumptions |-> [mmr |-> mmr, simplified |-> TRUE]]

\* the verdict threshold of compareAvgPnl, 1e-8
SAME_EPS == Rat(1, 100000000)

\* compareAvgPnl that calls the positions the same only when delta is 0
compareAvgPnl_NoTolerance(params) ==
    LET side == params.side
        initialPrice == params.initialPrice
        initialQty == params.initialQty
        addedPrice == params.addedPrice
        addedQty == params.addedQty
        marketPrice == params.marketPrice
        totalQty == Add(initialQty, addedQty)
        avgPrice == Div(Add(Mul(initialPrice, initialQty), Mul(addedPrice, addedQty)),
                        totalQty)
        pnlOld == IF side = "long"
                  THEN Mul(Sub(marketPrice, initialPrice), initialQty)
                  ELSE Mul(Sub(initialPrice, marketPrice), initialQty)
        pnlNew == IF side = "long"
                  THEN Mul(Sub(marketPrice, avgPrice), totalQty)
                  ELSE Mul(Sub(avgPrice, marketPrice), totalQty)
        delta == Sub(pnlNew, pnlOld)
        verdict == IF Eq(delta, Zero) THEN "same"
                   ELSE IF Gt(delta, Zero) THEN "better" ELSE "worse"
    IN  IF ~assertPositive(initialPrice) THEN Throw
        ELSE IF ~assertPositive(initialQty) THEN Throw
        ELSE IF ~assertPositive(addedPrice) THEN Throw
        ELSE IF ~assertPositive(addedQty) THEN Throw
        ELSE IF ~assertPositive(marketPrice) THEN Throw
        ELSE [threw |-> FALSE,
              avgPrice |-> avgPrice,
              totalQty |-> totalQty,
              pnlOld |-> pnlOld,
              pnlNew |-> pnlNew,
              delta |-> delta,
              verdict |-> verdict]

compareAvgPnl(params) ==
    LET side == params.side
        initialPrice == params.initialPrice
        initialQty == params.initialQty
        addedPrice == params.addedPrice
        addedQty == params.addedQty
        marketPrice == params.marketPrice
        totalQty == Add(initialQty, addedQty)
        avgPrice == Div(Add(Mul(initialPrice, initialQty), Mul(addedPrice, addedQty)),
                        totalQty)
        pnlOld == IF side = "long"
                  THEN Mul(Sub(marketPrice, initialPrice), initialQty)
                  ELSE Mul(Sub(initialPrice, marketPrice), initialQty)
        pnlNew == IF side = "long"
                  THEN Mul(Sub(marketPrice, avgPrice), totalQty)
                  ELSE Mul(Sub(avgPrice, marketPrice), totalQty)
        delta == Sub(pnlNew, pnlOld)
        verdict == IF Lt(MathAbs(delta), SAME_EPS) THEN "same"
                   ELSE IF Gt(delta, Zero) THEN "better" ELSE "worse"
    IN  IF ~assertPositive(initialPrice) THEN Throw
        ELSE IF ~assertPositive(initialQty) THEN Throw
        ELSE IF ~assertPositive(addedPrice) THEN Throw
        ELSE IF ~assertPositive(addedQty) THEN Throw
        ELSE IF ~assertPositive(marketPrice) THEN Throw
        ELSE [threw |-> FALSE,
              avgPrice |-> avgPrice,
              totalQty |-> totalQty,
              pnlOld |-> pnlOld,
              pnlNew |-> pnlNew,
              delta |-> delta,
              verdict |-> verdict]

\* qtyForTargetAvg with the solved quantity clamped at zero
qtyForTargetAvg_ClampedAtZero(params) ==
    LET currentPrice == params.currentPrice
        currentQty == params.currentQty
        targetAvg == params.targetAvg
        newPrice == params.newPrice
        qty == Div(Mul(currentQty, Sub(targetAvg, currentPrice)),
                   Sub(newPrice, targetAvg))
    IN  IF ~assertPositive(currentPrice) THEN Throw
        ELSE IF ~assertPositive(currentQty) THEN Throw
        ELSE IF ~assertPositive(targetAvg) THEN Throw
        ELSE IF ~assertPositive(newPrice) THEN Throw
        ELSE IF Eq(newPrice, targetAvg) THEN [threw |-> FALSE, type |-> "invalid"]
        ELSE [threw |-> FALSE, type |-> "ok", qty |-> MathMax(Zero, qty)]

\* qtyForTargetAvg with the denominator's operands swapped
qtyForTargetAvg_SwappedDenominator(params) ==
    LET currentPrice == params.currentPrice
        currentQty == params.currentQty
        targetAvg == params.targetAvg
        newPrice == params.newPrice
        qty == Div(Mul(currentQty, Sub(targetAvg, currentPrice)),
                   Sub(targetAvg, newPrice))
    IN  IF ~assertPositive(currentPrice) THEN Throw
        ELSE IF ~assertPositive(currentQty) THEN Throw
        ELSE IF ~assertPositive(targetAvg) THEN Throw
        ELSE IF ~assertPositive(newPrice) THEN Throw
        ELSE IF Eq(newPrice, targetAvg) THEN [threw |-> FALSE, type |-> "invalid"]
        ELSE IF Lt(qty, Zero)
             THEN [threw |-> FALSE, type |-> "reverse", qty |-> MathAbs(qty)]
        ELSE [threw |-> FALSE, type |-> "ok", qty |-> qty]

\* qtyForTargetAvg testing newPrice === targetAvg before the assertions
qtyForTargetAvg_TagFirst(params) ==
    LET currentPrice == params.currentPrice
        currentQty == params.currentQty
        targetAvg == params.targetAvg
        newPrice == params.newPrice
        qty == Div(Mul(currentQty, Sub(targetAvg, currentPrice)),
                   Sub(newPrice, targetAvg))
    IN  IF Eq(newPrice, targetAvg) THEN [threw |-> FALSE, type |-> "invalid"]
        ELSE IF ~assertPositive(currentPrice) THEN Throw
        ELSE IF ~assertPositive(currentQty) THEN Throw
        ELSE IF ~assertPositive(targetAvg) THEN Throw
        ELSE IF ~assertPositive(newPrice) THEN Throw
        ELSE IF Lt(qty, Zero)
             THEN [threw |-> FALSE, type |-> "reverse", qty |-> MathAbs(qty)]
        ELSE [threw |-> FALSE, type |-> "ok", qty |-> qty]

qtyForTargetAvg(params) ==
    LET currentPrice == params.currentPrice
        currentQty == params.currentQty
        targetAvg == params.targetAvg
        newPrice == params.newPrice
        qty == Div(Mul(currentQty, Sub(targetAvg, currentPrice)),
                   Sub(newPrice, targetAvg))
    IN  IF ~assertPositive(currentPrice) THEN Throw
        ELSE IF ~assertPositive(currentQty) THEN Throw
        ELSE IF ~assertPositive(targetAvg) THEN Throw
        ELSE IF ~assertPositive(newPrice) THEN Throw
        ELSE IF Eq(newPrice, targetAvg) THEN [threw |-> FALSE, type |-> "invalid"]
        ELSE IF Lt(qty, Zero)
             THEN [threw |-> FALSE, type |-> "reverse", qty |-> MathAbs(qty)]
        ELSE [threw |-> FALSE, type |-> "ok", qty |-> qty]

\* calcRequiredQtyForTargetAvg with the denominator targetAvg - newPrice
calcRequiredQtyForTargetAvg_DenomReversed(params) ==
    LET currentAvg == params.currentAvg
        currentQty == params.currentQty
        newPrice == params.newPrice
        targetAvg == params.targetAvg
        min == MathMin(currentAvg, newPrice)
        max == MathMax(currentAvg, newPrice)
        denom == Sub(targetAvg, newPrice)
        requiredQty == Div(Mul(currentQty, Sub(targetAvg, currentAvg)), denom)
    IN  IF ~assertPositive(currentAvg) THEN Throw
        ELSE IF ~assertPositive(currentQty) THEN Throw
        ELSE IF ~assertPositive(newPrice) THEN Throw
        ELSE IF ~assertPositive(targetAvg) THEN Throw
        ELSE IF Lt(targetAvg, min) \/ Gt(targetAvg, max)
        THEN [threw |-> FALSE, requiredQty |-> Zero]
        ELSE IF Eq(denom, Zero) THEN [threw |-> FALSE, requiredQty |-> Zero]
        ELSE [threw |-> FALSE, requiredQty |-> MathMax(Zero, requiredQty)]

calcRequiredQtyForTargetAvg(params) ==
    LET currentAvg == params.currentAvg
        currentQty == params.currentQty
        newPrice == params.newPrice
        targetAvg == params.targetAvg
        min == MathMin(currentAvg, newPrice)
        max == MathMax(currentAvg, newPrice)
        denom == Sub(newPrice, targetAvg)
        requiredQty == Div(Mul(currentQty, Sub(targetAvg, currentAvg)), denom)
    IN  IF ~assertPositive(currentAvg) THEN Throw
        ELSE IF ~assertPositive(currentQty) THEN Throw
        ELSE IF ~assertPositive(newPrice) THEN Throw
        ELSE IF ~assertPositive(targetAvg) THEN Throw
        ELSE IF Lt(targetAvg, min) \/ Gt(targetAvg, max)
        THEN [threw |-> FALSE, requiredQty |-> Zero]
        ELSE IF Eq(denom, Zero) THEN [threw |-> FALSE, requiredQty |-> Zero]
        ELSE [threw |-> FALSE, requiredQty |-> MathMax(Zero, requiredQty)]

(***************************************************************************)
(* The prop-firm page.                                                     *)
(***************************************************************************)
\* calcAvg2Leg dividing the total cost by the first quantity only
calcAvg2Leg_FirstQtyOnly(p1, q1, p2, q2) ==
    IF ~(Gt(p1, Zero) /\ Gt(q1, Zero) /\ Gt(p2, Zero) /\ Gt(q2, Zero)) THEN Throw
    ELSE [threw |-> FALSE,
          totalQty |-> Add(q1, q2),
          avgPrice |-> Div(Add(Mul(p1, q1), Mul(p2, q2)), q1),
          totalCost |-> Add(Mul(p1, q1), Mul(p2, q2))]

calcAvg2Leg(p1, q1, p2, q2) ==
    IF ~(Gt(p1, Zero) /\ Gt(q1, Zero) /\ Gt(p2, Zero) /\ Gt(q2, Zero)) THEN Throw
    ELSE [threw |-> FALSE,
          totalQty |-> Add(q1, q2),
          avgPrice |-> Div(Add(Mul(p1, q1), Mul(p2, q2)), Add(q1, q2)),
          totalCost |-> Add(Mul(p1, q1), Mul(p2, q2))]

derivePointValueUsd(tickSize, tickValueUsd, pointValueOverride) ==
    IF isFinite(pointValueOverride) /\ Gt(Nullish(pointValueOverride, Zero), Zero)
    THEN pointValueOverride
    ELSE IF ~isFinite(tickSize) \/ Le(tickSize, Zero) THEN NaN
    ELSE IF ~isFinite(tickValueUsd) \/ Le(tickValueUsd, Zero) THEN NaN
    ELSE Div(tickValueUsd, tickSize)

\* pnlAtPrice without the division by the pip size
pnlAtPrice_PipSizeIgnored(a) ==
    LET dir == IF a.side = "long" THEN One ELSE Neg(One)
    IN  IF ~(Gt(a.entryPrice, Zero) /\ Gt(a.markPrice, Zero) /\ Gt(a.qty, Zero))
        THEN Throw
        ELSE IF a.mode = "futures"
        THEN IF ~Gt(a.pointValueUsd, Zero) THEN Throw
             ELSE [threw |-> FALSE,
                   value |-> Mul(Mul(Mul(Sub(a.markPrice, a.entryPrice), dir),
                                     a.pointValueUsd), a.qty)]
        ELSE IF ~(Gt(a.pipSize, Zero) /\ Gt(a.pipValueUsd, Zero)) THEN Throw
        ELSE [threw |-> FALSE,
              value |-> Mul(Mul(Mul(Sub(a.markPrice, a.entryPrice), dir),
                                a.pipValueUsd), a.qty)]

\* pnlAtPrice with the direction of a long on either side
pnlAtPrice_SideIgnored(a) ==
    IF ~(Gt(a.entryPrice, Zero) /\ Gt(a.markPrice, Zero) /\ Gt(a.qty, Zero))
    THEN Throw
    ELSE IF a.mode = "futures"
    THEN IF ~Gt(a.pointValueUsd, Zero) THEN Throw
         ELSE [threw |-> FALSE,
               value |-> Mul(Mul(Sub(a.markPrice, a.entryPrice), a.pointValueUsd),
                             a.qty)]
    ELSE IF ~(Gt(a.pipSize, Zero) /\ Gt(a.pipValueUsd, Zero)) THEN Throw
    ELSE [threw |-> FALSE,
          value |-> Mul(Mul(Div(Sub(a.markPrice, a.entryPrice), a.pipSize),
                            a.pipValueUsd), a.qty)]

\* pnlAtPrice without the test of the forex pip size and pip value
pnlAtPrice_NoPipTest(a) ==
    LET dir == IF a.side = "long" THEN One ELSE Neg(One)
    IN  IF ~(Gt(a.entryPrice, Zero) /\ Gt(a.markPrice, Zero) /\ Gt(a.qty, Zero))
        THEN Throw
        ELSE IF a.mode = "futures"
        THEN IF ~Gt(a.pointValueUsd, Zero) THEN Throw
             ELSE [threw |-> FALSE,
                   value |-> Mul(Mul(Mul(Sub(a.markPrice, a.entryPrice), dir),
                                     a.pointValueUsd), a.qty)]
        ELSE [threw |-> FALSE,
              value |-> Mul(Mul(Mul(Div(Sub(a.markPrice, a.entryPrice), a.pipSize),
                                    dir), a.pipValueUsd), a.qty)]

\* the number pnlAtPrice returns is the field value
pnlAtPrice(a) ==
    LET dir == IF a.side = "long" THEN One ELSE Neg(One)
    IN  IF ~(Gt(a.entryPrice, Zero) /\ Gt(a.markPrice, Zero) /\ Gt(a.qty, Zero))
        THEN Throw
        ELSE IF a.mode = "futures"
        THEN IF ~Gt(a.pointValueUsd, Zero) THEN Throw
             ELSE [threw |-> FALSE,
                   value |-> Mul(Mul(Mul(Sub(a.markPrice, a.entryPrice), dir),
                                     a.pointValueUsd), a.qty)]
        ELSE IF ~(Gt(a.pipSize, Zero) /\ Gt(a.pipValueUsd, Zero)) THEN Throw
        ELSE [threw |-> FALSE,
              value |-> Mul(Mul(Mul(Div(Sub(a.markPrice, a.entryPrice), a.pipSize),
                                    dir), a.pipValueUsd), a.qty)]

\* breachPrice moving the price down on either side
breachPrice_SideIgnored(a) ==
    LET dir == Neg(One)
    IN  IF ~(Gt(a.avgEntry, Zero) /\ Gt(a.qty, Zero) /\ Gt(a.remainingDrawdownUsd, Zero))
        THEN Throw
        ELSE IF a.mode = "futures"
        THEN IF ~Gt(a.pointValueUsd, Zero) THEN Throw
             ELSE LET maxAdversePoints ==
                          Div(a.remainingDrawdownUsd, Mul(a.pointValueUsd, a.qty))
                  IN  [threw |-> FALSE,
                       maxAdverse |-> maxAdversePoints,
                       breach |-> Add(a.avgEntry, Mul(dir, maxAdversePoints)),
                       unit |-> "points"]
        ELSE IF ~(Gt(a.pipSize, Zero) /\ Gt(a.pipValueUsd, Zero)) THEN Throw
        ELSE LET maxAdversePips ==
                     Div(a.remainingDrawdownUsd, Mul(a.pipValueUsd, a.qty))
             IN  [threw |-> FALSE,
                  maxAdverse |-> maxAdversePips,
                  breach |-> Add(a.avgEntry, Mul(dir, Mul(maxAdversePips, a.pipSize))),
                  unit |-> "pips"]

\* breachPrice with the drawdown and the value per unit move exchanged
breachPrice_InverseDrawdown(a) ==
    LET dir == IF a.side = "long" THEN Neg(One) ELSE One
    IN  IF ~(Gt(a.avgEntry, Zero) /\ Gt(a.qty, Zero) /\ Gt(a.remainingDrawdownUsd, Zero))
        THEN Throw
        ELSE IF a.mode = "futures"
        THEN IF ~Gt(a.pointValueUsd, Zero) THEN Throw
             ELSE LET maxAdversePoints ==
                          Div(Mul(a.pointValueUsd, a.qty), a.remainingDrawdownUsd)
                  IN  [threw |-> FALSE,
                       maxAdverse |-> maxAdversePoints,
                       breach |-> Add(a.avgEntry, Mul(dir, maxAdversePoints)),
                       unit |-> "points"]
        ELSE IF ~(Gt(a.pipSize, Zero) /\ Gt(a.pipValueUsd, Zero)) THEN Throw
        ELSE LET maxAdversePips ==
                     Div(Mul(a.pipValueUsd, a.qty), a.remainingDrawdownUsd)
             IN  [threw |-> FALSE,
                  maxAdverse |-> maxAdversePips,
                  breach |-> Add(a.avgEntry, Mul(dir, Mul(maxAdversePips, a.pipSize))),
                  unit |-> "pips"]

breachPrice(a) ==
    LET dir == IF a.side = "long" THEN Neg(One) ELSE One
    IN  IF ~(Gt(a.avgEntry, Zero) /\ Gt(a.qty, Zero) /\ Gt(a.remainingDrawdownUsd, Zero))
        THEN Throw
        ELSE IF a.mode = "futures"
        THEN IF ~Gt(a.pointValueUsd, Zero) THEN Throw
             ELSE LET maxAdversePoints ==
                          Div(a.remainingDrawdownUsd, Mul(a.pointValueUsd, a.qty))
                  IN  [threw |-> FALSE,
                       maxAdverse |-> maxAdversePoints,
                       breach |-> Add(a.avgEntry, Mul(dir, maxAdversePoints)),
                       unit |-> "points"]
        ELSE IF ~(Gt(a.pipSize, Zero) /\ Gt(a.pipValueUsd, Zero)) THEN Throw
        ELSE LET maxAdversePips ==
                     Div(a.remainingDrawdownUsd, Mul(a.pipValueUsd, a.qty))
             IN  [threw |-> FALSE,
                  maxAdverse |-> maxAdversePips,
                  breach |-> Add(a.avgEntry, Mul(dir, Mul(maxAdversePips, a.pipSize))),
                  unit |-> "pips"]

\* what a useMemo holds after its try block threw
null == [isNull |-> TRUE]

\* effectiveRemaining that takes the overall drawdown whenever it is usable
effectiveRemaining_FirstWins(s) ==
    LET a == s.remainingDrawdownUsd
        b == s.dailyLossRemainingUsd
    IN  IF isFinite(a) /\ Gt(a, Zero) THEN a
        ELSE IF isFinite(b) /\ Gt(b, Zero) THEN b
        ELSE NaN

\* the memos of PropFirmCalculator, as functions of the component state s
effectiveRemaining(s) ==
    LET a == s.remainingDrawdownUsd
        b == s.dailyLossRemainingUsd
    IN  IF isFinite(a) /\ Gt(a, Zero) /\ isFinite(b) /\ Gt(b, Zero)
        THEN MathMin(a, b)
        ELSE IF isFinite(a) /\ Gt(a, Zero) THEN a
        ELSE IF isFinite(b) /\ Gt(b, Zero) THEN b
        ELSE NaN

avg(s) ==
    LET r == calcAvg2Leg(s.leg1Price, s.leg1Qty, s.leg2Price, s.leg2Qty)
    IN  IF r.threw THEN null ELSE r

breach(s) ==
    IF avg(s) = null THEN null
    ELSE IF ~Gt(effectiveRemaining(s), Zero) THEN null
    ELSE LET r == breachPrice([mode |-> s.mode, side |-> s.side,
                               avgEntry |-> avg(s).avgPrice,
                               qty |-> avg(s).totalQty,
                               remainingDrawdownUsd |-> effectiveRemaining(s),
                               pointValueUsd |-> s.pointValueUsd,
                               pipSize |-> s.pipSize,
                               pipValueUsd |-> s.pipValueUsd])
         IN  IF r.threw THEN null ELSE r

\* riskToStop without Math.abs
riskToStop_Signed(s) ==
    IF avg(s) = null THEN null
    ELSE IF ~Gt(s.stopPrice, Zero) THEN null
    ELSE LET risk == pnlAtPrice([mode |-> s.mode, side |-> s.side,
                                 entryPrice |-> avg(s).avgPrice,
                                 qty |-> avg(s).totalQty,
                                 markPrice |-> s.stopPrice,
                                 pointValueUsd |-> s.pointValueUsd,
                                 pipSize |-> s.pipSize,
                                 pipValueUsd |-> s.pipValueUsd])
         IN  IF risk.threw THEN null ELSE risk.value

riskToStop(s) ==
    IF avg(s) = null THEN null
    ELSE IF ~Gt(s.stopPrice, Zero) THEN null
    ELSE LET risk == pnlAtPrice([mode |-> s.mode, side |-> s.side,
                                 entryPrice |-> avg(s).avgPrice,
                                 qty |-> avg(s).totalQty,
                                 markPrice |-> s.stopPrice,
                                 pointValueUsd |-> s.pointValueUsd,
                                 pipSize |-> s.pipSize,
                                 pipValueUsd |-> s.pipValueUsd])
         IN  IF risk.threw THEN null ELSE MathAbs(risk.value)

(***************************************************************************)
(* The prop math helpers (app/page.tsx, from "src/lib/math/prop.ts" on).   *)
(***************************************************************************)
clampNonNegative(n) == IF isFinite(n) THEN MathMax(Zero, n) ELSE Zero

\* calcTwoLegAverage adding the first price without its quantity weight
calcTwoLegAverage_Unweighted(input) ==
    LET p1 == input.entry1Price
        q1 == input.entry1Qty
        p2 == Nullish(input.entry2Price, Zero)
        q2 == Nullish(input.entry2Qty, Zero)
        hasSecondLeg == isFinite(p2) /\ isFinite(q2) /\ Gt(q2, Zero)
        totalQty == Add(clampNonNegative(q1),
                        IF hasSecondLeg THEN clampNonNegative(q2) ELSE Zero)
        avgEntry == IF Gt(totalQty, Zero)
                    THEN Div(Add(p1,
                                 IF hasSecondLeg THEN Mul(p2, clampNonNegative(q2))
                                 ELSE Zero),
                             totalQty)
                    ELSE Zero
    IN  [threw |-> FALSE,
         totalQty |-> totalQty,
         avgEntry |-> avgEntry,
         avgShift |-> Sub(avgEntry, p1),
         hasSecondLeg |-> hasSecondLeg]

calcTwoLegAverage(input) ==
    LET p1 == input.entry1Price
        q1 == input.entry1Qty
        p2 == Nullish(input.entry2Price, Zero)
        q2 == Nullish(input.entry2Qty, Zero)
        hasSecondLeg == isFinite(p2) /\ isFinite(q2) /\ Gt(q2, Zero)
        totalQty == Add(clampNonNegative(q1),
                        IF hasSecondLeg THEN clampNonNegative(q2) ELSE Zero)
        avgEntry == IF Gt(totalQty, Zero)
                    THEN Div(Add(Mul(p1, clampNonNegative(q1)),
                                 IF hasSecondLeg THEN Mul(p2, clampNonNegative(q2))
                                 ELSE Zero),
                             totalQty)
                    ELSE Zero
    IN  [threw |-> FALSE,
         totalQty |-> totalQty,
         avgEntry |-> avgEntry,
         avgShift |-> Sub(avgEntry, p1),
         hasSecondLeg |-> hasSecondLeg]

safeDiv(n, d) ==
    IF ~isFinite(n) \/ ~isFinite(d) \/ Eq(d, Zero) THEN Zero ELSE Div(n, d)

\* derivePointValueUsd of the prop math helpers, which takes a FuturesSpec
derivePointValueUsdOfSpec(spec) ==
    IF isFinite(spec.pointValueUsd) /\ Gt(Nullish(spec.pointValueUsd, Zero), Zero)
    THEN spec.pointValueUsd
    ELSE safeDiv(spec.tickValueUsd, spec.tickSize)

pointsToTicks(points, tickSize) == safeDiv(MathAbs(points), tickSize)

futuresBreachPrice(a) ==
    LET pointValue == derivePointValueUsdOfSpec(a.spec)
        denom == Mul(pointValue, clampNonNegative(a.contracts))
        maxAdversePoints == IF Gt(denom, Zero)
                            THEN Div(clampNonNegative(a.remainingDrawdownUsd), denom)
                            ELSE Zero
    IN  [threw |-> FALSE,
         maxAdversePoints |-> maxAdversePoints,
         maxAdverseTicks |-> pointsToTicks(maxAdversePoints, a.spec.tickSize),
         breachPrice |-> IF a.side = "long"
                         THEN Sub(a.avgEntry, maxAdversePoints)
                         ELSE Add(a.avgEntry, maxAdversePoints)]

forexBreachPrice(a) ==
    LET denom == Mul(a.spec.pipValueUsd, clampNonNegative(a.lots))
        maxAdversePips == IF Gt(denom, Zero)
                          THEN Div(clampNonNegative(a.remainingDrawdownUsd), denom)
                          ELSE Zero
        maxAdversePriceDist == Mul(maxAdversePips, a.spec.pipSize)
    IN  [threw |-> FALSE,
         maxAdversePips |-> maxAdversePips,
         breachPrice |-> IF a.side = "long"
                         THEN Sub(a.avgEntry, maxAdversePriceDist)
                         ELSE Add(a.avgEntry, maxAdversePriceDist)]

(***************************************************************************)
(* The generic page (app/page.tsx, Page): the average-entry tab.  The      *)
(* variable page holds the state of the tab and what its three memos hold  *)
(* after the last render.                                                  *)
(***************************************************************************)
\* the memo bodies, on the state st
pageAvg(st) ==
    CHOOSE memo \in
        {IF r.threw THEN null ELSE r :
             r \in {calcAvgEntry(legs) :
                       legs \in {<<[price |-> st.leg1Price,
                                    quantity |-> st.leg1Qty],
                                   [price |-> st.leg2Price,
                                    quantity |-> st.leg2Qty]>>}}} : TRUE

pageComparison(st) ==
    CHOOSE memo \in
        {IF r.threw THEN null ELSE r :
             r \in {compareAvgPnl(params) :
                       params \in {[side |-> st.avgSide,
                                    initialPrice |-> st.leg1Price,
                                    initialQty |-> st.leg1Qty,
                                    addedPrice |-> st.leg2Price,
                                    addedQty |-> st.leg2Qty,
                                    marketPrice |-> st.marketPrice]}}} : TRUE

pageTargetQty(st) ==
    CHOOSE memo \in
        {IF r.threw THEN null ELSE r :
             r \in {qtyForTargetAvg(params) :
                       params \in {[currentPrice |-> st.leg1Price,
                                    currentQty |-> st.leg1Qty,
                                    targetAvg |-> st.targetAvg,
                                    newPrice |-> st.marketPrice]}}} : TRUE

\* the dependency lists of the memos and of the example effect
avgDeps == {"leg1Price", "leg1Qty", "leg2Price", "leg2Qty"}
comparisonDeps == {"avgSide", "leg1Price", "leg1Qty", "leg2Price", "leg2Qty",
                   "marketPrice"}
targetQtyDeps == {"leg1Price", "leg1Qty", "leg2Price", "targetAvg"}
avgExampleDeps == {"avgSide", "avgIsExample"}

\* a dependency differs from its value at the previous render
DepsChanged(prev, st, deps) == \E f \in deps : prev[f] # st[f]

\* one render: useMemo recomputes a memo only when one of its
\* dependencies changed, and keeps what it held otherwise
Render(prev, st) ==
    [st EXCEPT
        !.avg = IF DepsChanged(prev, st, avgDeps)
                THEN pageAvg(st) ELSE prev.avg,
        !.comparison = IF DepsChanged(prev, st, comparisonDeps)
                       THEN pageComparison(st) ELSE prev.comparison,
        !.targetQty = IF DepsChanged(prev, st, targetQtyDeps)
                      THEN pageTargetQty(st) ELSE prev.targetQty]

\* the body of the example effect of the average-entry tab
avgExampleEffect(st) ==
    IF ~st.avgIsExample THEN st
    ELSE IF st.avgSide = "long"
    THEN [st EXCEPT !.leg1Price = Rat(15, 10), !.leg2Price = Rat(2, 1),
                    !.marketPrice = Rat(21, 10), !.targetAvg = Rat(18, 10),
                    !.leg1Qty = Rat(10000, 1), !.leg2Qty = Rat(5000, 1)]
    ELSE [st EXCEPT !.leg1Price = Rat(2, 1), !.leg2Price = Rat(15, 10),
                    !.marketPrice = Rat(14, 10), !.targetAvg = Rat(17, 10),
                    !.leg1Qty = Rat(10000, 1), !.leg2Qty = Rat(5000, 1)]

\* a state update until React has settled: render, then the example effect
\* when one of its dependencies changed, then the render its updates cause
Commit(prev, st) ==
    CHOOSE settled \in UNION
        {IF DepsChanged(prev, rendered, avgExampleDeps)
         THEN {Render(rendered, filled) :
                   filled \in {avgExampleEffect(rendered)}}
         ELSE {rendered} : rendered \in {Render(prev, st)}} : TRUE

\* the handlers of the clear and the example button
clearAvg(st) ==
    [st EXCEPT !.avgIsExample = FALSE,
               !.leg1Price = NaN, !.leg1Qty = NaN, !.leg2Price = NaN,
               !.leg2Qty = NaN, !.marketPrice = NaN, !.targetAvg = NaN]

exampleAvg(st) ==
    IF st.avgSide = "long"
    THEN [st EXCEPT !.avgIsExample = TRUE,
                    !.leg1Price = NaN, !.leg2Price = Rat(2, 1),
                    !.marketPrice = Rat(21, 10), !.targetAvg = Rat(18, 10),
                    !.leg1Qty = Rat(10000, 1), !.leg2Qty = Rat(5000, 1)]
    ELSE [st EXCEPT !.avgIsExample = TRUE,
                    !.leg1Price = Rat(2, 1), !.leg2Price = Rat(15, 10),
                    !.marketPrice = Rat(14, 10), !.targetAvg = Rat(17, 10),
                    !.leg1Qty = Rat(10000, 1), !.leg2Qty = Rat(5000, 1)]

\* the tab after the first render: empty fields, every memo caught a throw
PageMounted ==
    LET st == [avgSide |-> "long", avgIsExample |-> FALSE,
               leg1Price |-> NaN, leg1Qty |-> NaN, leg2Price |-> NaN,
               leg2Qty |-> NaN, marketPrice |-> NaN, targetAvg |-> NaN]
    IN  [avgSide |-> st.avgSide, avgIsExample |-> st.avgIsExample,
         leg1Price |-> st.leg1Price, leg1Qty |-> st.leg1Qty,
         leg2Price |-> st.leg2Price, leg2Qty |-> st.leg2Qty,
         marketPrice |-> st.marketPrice, targetAvg |-> st.targetAvg,
         avg |-> pageAvg(st), comparison |-> pageComparison(st),
         targetQty |-> pageTargetQty(st)]

(***************************************************************************)
(* NumberField (app/page.tsx and the prop-firm page: the same component).  *)
(* A text is a sequence of one-character strings.                          *)
(***************************************************************************)
DigitChars == {"0", "1", "2", "3", "4", "5", "6", "7", "8", "9"}

DigitVal(c) ==
    CASE c = "0" -> 0 [] c = "1" -> 1 [] c = "2" -> 2 [] c = "3" -> 3
      [] c = "4" -> 4 [] c = "5" -> 5 [] c = "6" -> 6 [] c = "7" -> 7
      [] c = "8" -> 8 [] c = "9" -> 9

DigitChar(i) ==
    CASE i = 0 -> "0" [] i = 1 -> "1" [] i = 2 -> "2" [] i = 3 -> "3"
      [] i = 4 -> "4" [] i = 5 -> "5" [] i = 6 -> "6" [] i = 7 -> "7"
      [] i = 8 -> "8" [] i = 9 -> "9"

RECURSIVE Pow10(_)
Pow10(k) == IF k = 0 THEN 1 ELSE 10 * Pow10(k - 1)

\* the value of a sequence of digits, 0 for the empty one
RECURSIVE IntOf(_)
IntOf(ds) ==
    IF Len(ds) = 0 THEN 0
    ELSE 10 * IntOf(SubSeq(ds, 1, Len(ds) - 1)) + DigitVal(ds[Len(ds)])

\* the decimal digits of a natural number
RECURSIVE DigitsOf(_)
DigitsOf(i) ==
    IF i < 10 THEN <<DigitChar(i)>>
    ELSE Append(DigitsOf(i \div 10), DigitChar(i % 10))

\* a text without its leading sign
Unsigned(t) == IF Len(t) > 0 /\ t[1] \in {"-", "+"} THEN Tail(t) ELSE t

\* /^[-+]?\d*\.?\d*$/.test(t)
Accepted(t) ==
    LET body == Unsigned(t)
    IN  /\ \A i \in 1..Len(body) : body[i] \in DigitChars \cup {"."}
        /\ Cardinality({i \in 1..Len(body) : body[i] = "."}) <= 1

\* t.replace(",", "."): the first comma only
ReplaceComma(t) ==
    LET commas == {i \in 1..Len(t) : t[i] = ","}
    IN  IF commas = {} THEN t
        ELSE LET first == CHOOSE i \in commas : \A j \in commas : i <= j
             IN  [t EXCEPT ![first] = "."]

endsWithDot(t) == Len(t) > 0 /\ t[Len(t)] = "."

\* Number(t) of a decimal text: 0 for the empty text, NaN for a text with
\* no digit or a character outside the decimal syntax
Number(t) ==
    LET body == Unsigned(t)
        dots == {i \in 1..Len(body) : body[i] = "."}
        dot == IF dots = {} THEN Len(body) + 1 ELSE CHOOSE i \in dots : TRUE
        int == SubSeq(body, 1, dot - 1)
        frac == SubSeq(body, dot + 1, Len(body))
        sign == IF Len(t) > 0 /\ t[1] = "-" THEN -1 ELSE 1
    IN  IF Len(t) = 0 THEN Zero
        ELSE IF ~Accepted(t) THEN NaN
        ELSE IF Len(int) + Len(frac) = 0 THEN NaN
        ELSE Rat(sign * (IntOf(int) * Pow10(Len(frac)) + IntOf(frac)),
                 Pow10(Len(frac)))

\* the number of decimals of a fraction with denominator d (a divisor of a
\* power of ten)
RECURSIVE Decimals(_, _)
Decimals(d, k) == IF Pow10(k) % d = 0 THEN k ELSE Decimals(d, k + 1)

\* zeros in front of a digit sequence up to k digits
RECURSIVE PadTo(_, _)
PadTo(ds, k) == IF Len(ds) >= k THEN ds ELSE PadTo(<<"0">> \o ds, k)

\* String(v) of a finite decimal number
String(v) ==
    LET a == Abs(v.n)
        k == Decimals(v.d, 0)
        sign == IF v.n < 0 THEN <<"-">> ELSE <<>>
        int == DigitsOf(a \div v.d)
        frac == PadTo(DigitsOf(((a % v.d) * Pow10(k)) \div v.d), k)
    IN  IF k = 0 THEN sign \o int ELSE sign \o int \o <<".">> \o frac

\* the sync effect: it runs when the value changed, and writes the text only
\* while the field is not focused
SyncText(f, oldValue) ==
    IF f.value = oldValue \/ f.isFocused THEN f
    ELSE [f EXCEPT !.text = IF isFinite(f.value) THEN String(f.value) ELSE <<>>]

\* what onChange(v) of the parent (a useState setter) and the render after
\* it do to the field; report keeps the text the handler left in the input
\* and the number it handed over
Report(f, t, v) ==
    SyncText([f EXCEPT !.text = t, !.value = v,
                       !.report = [made |-> TRUE, text |-> t, value |-> v]],
             f.value)

NoReport == [made |-> FALSE, text |-> <<>>, value |-> NaN]

\* onFocus
onFocus(f) == [f EXCEPT !.isFocused = TRUE, !.report = NoReport]

\* onBlur
onBlur(f) ==
    LET g == [f EXCEPT !.isFocused = FALSE, !.report = NoReport]
    IN  IF endsWithDot(f.text)
        THEN LET trimmed == SubSeq(f.text, 1, Len(f.text) - 1)
                 n == Number(trimmed)
             IN  Report(g, trimmed, IF isFinite(n) THEN n ELSE NaN)
        ELSE LET n == Number(f.text)
                 lo == IF ~f.min.given THEN n ELSE MathMax(n, Number(f.min.text))
                 clamped == IF ~f.max.given THEN lo
                            ELSE MathMin(lo, Number(f.max.text))
             IN  IF isFinite(n) /\ clamped # n
                 THEN Report(g, String(clamped), clamped)
                 ELSE g

\* onChange with e.target.value = value
onChange(f, value) ==
    LET raw == ReplaceComma(value)
        g == [f EXCEPT !.report = NoReport]
        n == Number(raw)
    IN  IF raw = <<>> THEN Report(g, <<>>, NaN)
        ELSE IF ~Accepted(raw) THEN g
        ELSE IF raw \in {<<".">>, <<"-">>, <<"+">>, <<"-", ".">>, <<"+", ".">>}
        THEN Report(g, raw, NaN)
        ELSE Report(g, raw, IF isFinite(n) THEN n ELSE NaN)

\* the parent sets the value of the field (a clear or an example button)
setValue(f, v) == SyncText([f EXCEPT !.value = v, !.report = NoReport], f.value)

\* an optional string prop: omitted, or given with a text
NoProp == [given |-> FALSE, text |-> <<>>]

Prop(t) == [given |-> TRUE, text |-> t]

\* the field after its first render, with the min and max it is given
FieldMounted(min, max) ==
    [text |-> <<>>, isFocused |-> FALSE, value |-> NaN, min |-> min, max |-> max,
     report |-> NoReport]

(***************************************************************************)
(* Input sets.                                                             *)
(***************************************************************************)
Sides == {"long", "short"}

PosVals == {Rat(n, d) : n \in 1..MaxNum, d \in 1..MaxDen}

BadVals == {Zero, Rat(-1, 1), NaN, PosInf, NegInf}

Vals == PosVals \cup BadVals

OptVals == Vals \cup {Undefined}

\* Number.MAX_SAFE_INTEGER, half of it, and values above it
BigVals == {MAX_SAFE_INTEGER, Div(MAX_SAFE_INTEGER, Rat(2, 1)),
            Add(MAX_SAFE_INTEGER, One), Mul(Rat(2, 1), MAX_SAFE_INTEGER)}

BadLegVals == {Zero, Rat(-1, 1), NaN, PosInf}

LegPrices == {Rat(n, 1) : n \in 1..MaxNum} \cup BadLegVals

LegQtys == {Rat(1, d) : d \in 1..MaxDen} \cup {Rat(MaxNum, 1)} \cup BadLegVals

Legs == [price : LegPrices, quantity : LegQtys]

\* the sequences of at most MaxLegs legs
LegLists == UNION {[1..len -> Legs] : len \in 0..MaxLegs}

\* prices and dollar amounts; contracts or lots
Amounts == LegPrices

\* the value spec of a call: the point value in futures mode, the pip size
\* and the pip value in forex mode (the fields of the other mode are omitted)
ValueSpecs ==
    {[mode |-> "futures", pointValueUsd |-> pv, pipSize |-> Undefined,
      pipValueUsd |-> Undefined] : pv \in LegQtys \cup {Undefined}}
    \cup
    {[mode |-> "forex", pointValueUsd |-> Undefined, pipSize |-> ps,
      pipValueUsd |-> pval] : ps \in LegQtys \cup {Undefined},
                              pval \in LegQtys \cup {Undefined}}

TickVals == {Rat(1, MaxDen), One, Zero, Rat(-1, 1), NaN}

\* FuturesSpec, ForexSpec
FuturesSpecs ==
    [tickSize : TickVals, tickValueUsd : TickVals,
     pointValueUsd : TickVals \cup {Undefined}]

ForexSpecs == [pipSize : LegQtys, pipValueUsd : LegQtys]

\* an added quantity so small that the change of the P&L is around 1e-8
NearTieQty == Rat(1, 200000000)

NearTiePrices == {One, Rat(2, 1), Rat(3, 1)}

\* the inputs of compareAvgPnl: every combination of leg values, and small
\* additions to a position of one unit at price 1
CompareAvgPnlInputs ==
    {[side |-> side, initialPrice |-> p1, initialQty |-> q1, addedPrice |-> p2,
      addedQty |-> q2, marketPrice |-> marketPrice] :
        side \in Sides, p1 \in LegPrices, q1 \in LegQtys, p2 \in LegPrices,
        q2 \in LegQtys, marketPrice \in LegPrices}
    \cup
    {[side |-> side, initialPrice |-> One, initialQty |-> One, addedPrice |-> p2,
      addedQty |-> NearTieQty, marketPrice |-> marketPrice] :
        side \in Sides, p2 \in NearTiePrices, marketPrice \in NearTiePrices}

(***************************************************************************)
(* The calls: one call of one operation of the module per behaviour, on    *)
(* inputs drawn from the input sets.                                       *)
(***************************************************************************)
Init ==
    /\ op = "none"
    /\ args = [side |-> "long"]
    /\ ret = Throw
    /\ field = Unmounted
    /\ page = Unmounted

CallCalcPnl ==
    /\ op = "none"
    /\ UNCHANGED <<field, page>>
    /\ \E side \in Sides, entryPrice \in Vals, exitPrice \in Vals,
       quantity \in Vals, feeRate \in OptVals :
        LET input == [side |-> side, entryPrice |-> entryPrice,
                      exitPrice |-> exitPrice, quantity |-> quantity,
                      feeRate |-> feeRate]
        IN  /\ op' = "calcPnl"
            /\ args' = input
            /\ ret' = calcPnl(input)

CallCalcAvgEntry ==
    /\ op = "none"
    /\ UNCHANGED <<field, page>>
    /\ \E legs \in LegLists :
        /\ op' = "calcAvgEntry"
        /\ args' = [legs |-> legs]
        /\ ret' = calcAvgEntry(legs)

CallCalcAvg2Leg ==
    /\ op = "none"
    /\ UNCHANGED <<field, page>>
    /\ \E p1 \in LegPrices, q1 \in LegQtys, p2 \in LegPrices, q2 \in LegQtys :
        /\ op' = "calcAvg2Leg"
        /\ args' = [legs |-> <<[price |-> p1, quantity |-> q1],
                               [price |-> p2, quantity |-> q2]>>]
        /\ ret' = calcAvg2Leg(p1, q1, p2, q2)

CallCompareAvgPnl ==
    /\ op = "none"
    /\ UNCHANGED <<field, page>>
    /\ \E params \in CompareAvgPnlInputs :
        /\ op' = "compareAvgPnl"
        /\ args' = params
        /\ ret' = compareAvgPnl(params)

CallCalcTwoLegAverage ==
    /\ op = "none"
    /\ UNCHANGED <<field, page>>
    /\ \E p1 \in Vals, q1 \in Vals, p2 \in OptVals, q2 \in OptVals :
        LET input == [entry1Price |-> p1, entry1Qty |-> q1,
                      entry2Price |-> p2, entry2Qty |-> q2]
        IN  /\ op' = "calcTwoLegAverage"
            /\ args' = input
            /\ ret' = calcTwoLegAverage(input)

CallCalcLiquidationPrice ==
    /\ op = "none"
    /\ UNCHANGED <<field, page>>
    /\ \E side \in Sides, entryPrice \in Vals \cup BigVals, leverage \in Vals,
       mmr \in OptVals :
        LET input == [side |-> side, entryPrice |-> entryPrice,
                      leverage |-> leverage, mmr |-> mmr]
        IN  /\ op' = "calcLiquidationPrice"
            /\ args' = input
            /\ ret' = calcLiquidationPrice(input)

CallQtyForTargetAvg ==
    /\ op = "none"
    /\ UNCHANGED <<field, page>>
    /\ \E currentPrice \in Vals, currentQty \in Vals, targetAvg \in Vals,
          newPrice \in Vals :
        LET params == [currentPrice |-> currentPrice, currentQty |-> currentQty,
                       targetAvg |-> targetAvg, newPrice |-> newPrice]
        IN  /\ op' = "qtyForTargetAvg"
            /\ args' = params
            /\ ret' = qtyForTargetAvg(params)

CallPnlAtPrice ==
    /\ op = "none"
    /\ UNCHANGED <<field, page>>
    /\ \E vs \in ValueSpecs, side \in Sides, entryPrice \in Amounts,
          qty \in LegQtys, markPrice \in Amounts :
        LET a == [mode |-> vs.mode, side |-> side, entryPrice |-> entryPrice,
                  qty |-> qty, markPrice |-> markPrice,
                  pointValueUsd |-> vs.pointValueUsd, pipSize |-> vs.pipSize,
                  pipValueUsd |-> vs.pipValueUsd]
        IN  /\ op' = "pnlAtPrice"
            /\ args' = a
            /\ ret' = pnlAtPrice(a)

CallBreachPrice ==
    /\ op = "none"
    /\ UNCHANGED <<field, page>>
    /\ \E vs \in ValueSpecs, side \in Sides, avgEntry \in Amounts,
          qty \in LegQtys, remainingDrawdownUsd \in Amounts :
        LET a == [mode |-> vs.mode, side |-> side, avgEntry |-> avgEntry,
                  qty |-> qty, remainingDrawdownUsd |-> remainingDrawdownUsd,
                  pointValueUsd |-> vs.pointValueUsd, pipSize |-> vs.pipSize,
                  pipValueUsd |-> vs.pipValueUsd]
        IN  /\ op' = "breachPrice"
            /\ args' = a
            /\ ret' = breachPrice(a)

CallDerivePointValueUsd ==
    /\ op = "none"
    /\ UNCHANGED <<field, page>>
    /\ \E tickSize \in Vals, tickValueUsd \in Vals, pointValueOverride \in OptVals :
        /\ op' = "derivePointValueUsd"
        /\ args' = [tickSize |-> tickSize, tickValueUsd |-> tickValueUsd,
                    pointValueUsd |-> pointValueOverride]
        /\ ret' = [threw |-> FALSE,
                   value |-> derivePointValueUsd(tickSize, tickValueUsd,
                                                 pointValueOverride)]

CallDerivePointValueUsdOfSpec ==
    /\ op = "none"
    /\ UNCHANGED <<field, page>>
    /\ \E tickSize \in Vals, tickValueUsd \in Vals, pointValueUsd \in OptVals :
        LET spec == [tickSize |-> tickSize, tickValueUsd |-> tickValueUsd,
                     pointValueUsd |-> pointValueUsd]
        IN  /\ op' = "derivePointValueUsdOfSpec"
            /\ args' = spec
            /\ ret' = [threw |-> FALSE, value |-> derivePointValueUsdOfSpec(spec)]

CallFuturesBreachPrice ==
    /\ op = "none"
    /\ UNCHANGED <<field, page>>
    /\ \E spec \in FuturesSpecs, side \in Sides, avgEntry \in Amounts,
          contracts \in LegQtys, remainingDrawdownUsd \in Amounts :
        LET a == [side |-> side, avgEntry |-> avgEntry, contracts |-> contracts,
                  remainingDrawdownUsd |-> remainingDrawdownUsd, spec |-> spec]
        IN  /\ op' = "futuresBreachPrice"
            /\ args' = a
            /\ ret' = futuresBreachPrice(a)

CallForexBreachPrice ==
    /\ op = "none"
    /\ UNCHANGED <<field, page>>
    /\ \E spec \in ForexSpecs, side \in Sides, avgEntry \in Amounts,
          lots \in LegQtys, remainingDrawdownUsd \in Amounts :
        LET a == [side |-> side, avgEntry |-> avgEntry, lots |-> lots,
                  remainingDrawdownUsd |-> remainingDrawdownUsd, spec |-> spec]
        IN  /\ op' = "forexBreachPrice"
            /\ args' = a
            /\ ret' = forexBreachPrice(a)

CallCalcRequiredQtyForTargetAvg ==
    /\ op = "none"
    /\ UNCHANGED <<field, page>>
    /\ \E currentAvg \in Vals, currentQty \in Vals, newPrice \in Vals,
          targetAvg \in Vals :
        LET params == [currentAvg |-> currentAvg, currentQty |-> currentQty,
                       newPrice |-> newPrice, targetAvg |-> targetAvg]
        IN  /\ op' = "calcRequiredQtyForTargetAvg"
            /\ args' = params
            /\ ret' = calcRequiredQtyForTargetAvg(params)

Next ==
    \/ CallCalcPnl
    \/ CallCalcAvgEntry
    \/ CallCalcAvg2Leg
    \/ CallCompareAvgPnl
    \/ CallCalcTwoLegAverage
    \/ CallCalcLiquidationPrice
    \/ CallQtyForTargetAvg
    \/ CallPnlAtPrice
    \/ CallBreachPrice
    \/ CallDerivePointValueUsd
    \/ CallDerivePointValueUsdOfSpec
    \/ CallFuturesBreachPrice
    \/ CallForexBreachPrice
    \/ CallCalcRequiredQtyForTargetAvg

Spec == Init /\ [][Next]_vars

(***************************************************************************)
(* The memos of the prop-firm page: one evaluation of one memo per         *)
(* behaviour, on a component state drawn from the input sets.  A number    *)
(* field hands the page NaN or a finite number, never an infinity.         *)
(***************************************************************************)
Modes == {"futures", "forex"}

\* what the fields of the two legs can hold
PropLeg1Prices == {One, Rat(MaxNum, 1)}
PropLeg1Qtys == {One, NaN}
PropLeg2Prices == {Rat(MaxNum, 1), Zero}
PropLeg2Qtys == {Rat(1, MaxDen), Rat(-1, 1)}

\* the dollar and price fields: finite numbers and NaN
FieldAmounts == {Rat(n, 1) : n \in 1..MaxNum} \cup {Zero, Rat(-1, 1), NaN}

\* the resolved point value, the pip size and the pip value
PropPointValues == {Rat(1, MaxDen), NaN}
PropPipSizes == {Rat(1, MaxDen), Zero}
PropPipValues == {One, NaN}

PropState(mode, side, p1, q1, p2, q2, stop, a, b, pv, ps, pval) ==
    [mode |-> mode, side |-> side, leg1Price |-> p1, leg1Qty |-> q1,
     leg2Price |-> p2, leg2Qty |-> q2, stopPrice |-> stop,
     remainingDrawdownUsd |-> a, dailyLossRemainingUsd |-> b,
     pointValueUsd |-> pv, pipSize |-> ps, pipValueUsd |-> pval]

EvalBreach ==
    /\ op = "none"
    /\ UNCHANGED <<field, page>>
    /\ \E mode \in Modes, side \in Sides, p1 \in PropLeg1Prices,
          q1 \in PropLeg1Qtys, p2 \in PropLeg2Prices, q2 \in PropLeg2Qtys,
          a \in FieldAmounts, b \in FieldAmounts, pv \in PropPointValues,
          ps \in PropPipSizes, pval \in PropPipValues :
        LET s == PropState(mode, side, p1, q1, p2, q2, NaN, a, b, pv, ps, pval)
        IN  /\ op' = "breach"
            /\ args' = s
            /\ ret' = [effectiveRemaining |-> effectiveRemaining(s),
                       breach |-> breach(s)]

EvalRiskToStop ==
    /\ op = "none"
    /\ UNCHANGED <<field, page>>
    /\ \E mode \in Modes, side \in Sides, p1 \in PropLeg1Prices,
          q1 \in PropLeg1Qtys, p2 \in PropLeg2Prices, q2 \in PropLeg2Qtys,
          stop \in FieldAmounts, pv \in PropPointValues,
          ps \in PropPipSizes, pval \in PropPipValues :
        LET s == PropState(mode, side, p1, q1, p2, q2, stop, NaN, NaN, pv, ps, pval)
        IN  /\ op' = "riskToStop"
            /\ args' = s
            /\ ret' = [riskToStop |-> riskToStop(s)]

PropNext ==
    \/ EvalBreach
    \/ EvalRiskToStop

PropSpec == Init /\ [][PropNext]_vars

(***************************************************************************)
(* The average-entry tab of the generic page as a state machine: one       *)
(* action per event, each followed by the renders and effects it causes.   *)
(***************************************************************************)
\* what a number field of the tab hands the page: NaN or a finite number
TypedVals == {NaN} \cup {Rat(n, 1) : n \in 1..MaxTyped}

PageInit ==
    /\ op = "none"
    /\ args = [side |-> "long"]
    /\ ret = Throw
    /\ field = Unmounted
    /\ page = PageMounted

SetLeg1Price ==
    /\ \E v \in TypedVals : \E st \in {[page EXCEPT !.leg1Price = v]} :
           page' = Commit(page, st)
    /\ op' = "setLeg1Price"
    /\ UNCHANGED <<args, ret, field>>

SetLeg1Qty ==
    /\ \E v \in TypedVals : \E st \in {[page EXCEPT !.leg1Qty = v]} :
           page' = Commit(page, st)
    /\ op' = "setLeg1Qty"
    /\ UNCHANGED <<args, ret, field>>

SetLeg2Price ==
    /\ \E v \in TypedVals : \E st \in {[page EXCEPT !.leg2Price = v]} :
           page' = Commit(page, st)
    /\ op' = "setLeg2Price"
    /\ UNCHANGED <<args, ret, field>>

SetLeg2Qty ==
    /\ \E v \in TypedVals : \E st \in {[page EXCEPT !.leg2Qty = v]} :
           page' = Commit(page, st)
    /\ op' = "setLeg2Qty"
    /\ UNCHANGED <<args, ret, field>>

SetMarketPrice ==
    /\ \E v \in TypedVals : \E st \in {[page EXCEPT !.marketPrice = v]} :
           page' = Commit(page, st)
    /\ op' = "setMarketPrice"
    /\ UNCHANGED <<args, ret, field>>

SetTargetAvg ==
    /\ \E v \in TypedVals : \E st \in {[page EXCEPT !.targetAvg = v]} :
           page' = Commit(page, st)
    /\ op' = "setTargetAvg"
    /\ UNCHANGED <<args, ret, field>>

SetAvgSide ==
    /\ \E side \in Sides : \E st \in {[page EXCEPT !.avgSide = side]} :
           page' = Commit(page, st)
    /\ op' = "setAvgSide"
    /\ UNCHANGED <<args, ret, field>>

ClickClear ==
    /\ \E st \in {clearAvg(page)} : page' = Commit(page, st)
    /\ op' = "clear"
    /\ UNCHANGED <<args, ret, field>>

ClickExample ==
    /\ \E st \in {exampleAvg(page)} : page' = Commit(page, st)
    /\ op' = "example"
    /\ UNCHANGED <<args, ret, field>>

PageNext ==
    \/ SetLeg1Price
    \/ SetLeg1Qty
    \/ SetLeg2Price
    \/ SetLeg2Qty
    \/ SetMarketPrice
    \/ SetTargetAvg
    \/ SetAvgSide
    \/ ClickClear
    \/ ClickExample

PageSpec == PageInit /\ [][PageNext]_vars

(***************************************************************************)
(* One NumberField as a state machine: focus, keystrokes, blur, and the    *)
(* parent setting the value from a clear or an example button.             *)
(***************************************************************************)
\* the min and max given to the fields: none, min "1" (leverage), min "0"
\* (mmr), and a field with both
FieldProps ==
    {[min |-> NoProp, max |-> NoProp],
     [min |-> Prop(<<"1">>), max |-> NoProp],
     [min |-> Prop(<<"0">>), max |-> NoProp],
     [min |-> Prop(<<"1">>), max |-> Prop(<<"3">>)]}

\* the keys pressed
TypedChars == {"0", "1", "5", ".", "-", "+", ",", "e"}

\* the values an example button writes
ExampleVals == {Rat(15, 10), Rat(2, 1), Rat(10000, 1)}

FieldInit ==
    /\ op = "none"
    /\ args = [side |-> "long"]
    /\ ret = Throw
    /\ page = Unmounted
    /\ field \in {FieldMounted(p.min, p.max) : p \in FieldProps}

Focus ==
    /\ ~field.isFocused
    /\ field' = onFocus(field)
    /\ op' = "focus"
    /\ UNCHANGED <<args, ret, page>>

\* a key appends its character to the text
TypeChar ==
    /\ field.isFocused
    /\ Len(field.text) < MaxText
    /\ \E c \in TypedChars : field' = onChange(field, Append(field.text, c))
    /\ op' = "change"
    /\ UNCHANGED <<args, ret, page>>

\* a key typed over the selection replaces the whole text
TypeOver ==
    /\ field.isFocused
    /\ \E c \in TypedChars : field' = onChange(field, <<c>>)
    /\ op' = "change"
    /\ UNCHANGED <<args, ret, page>>

Backspace ==
    /\ field.isFocused
    /\ Len(field.text) > 0
    /\ field' = onChange(field, SubSeq(field.text, 1, Len(field.text) - 1))
    /\ op' = "change"
    /\ UNCHANGED <<args, ret, page>>

Blur ==
    /\ field.isFocused
    /\ field' = onBlur(field)
    /\ op' = "blur"
    /\ UNCHANGED <<args, ret, page>>

\* the buttons take the focus, so the field is not focused when they act
ClearField ==
    /\ ~field.isFocused
    /\ field' = setValue(field, NaN)
    /\ op' = "clear"
    /\ UNCHANGED <<args, ret, page>>

ExampleField ==
    /\ ~field.isFocused
    /\ \E v \in ExampleVals : field' = setValue(field, v)
    /\ op' = "example"
    /\ UNCHANGED <<args, ret, page>>

FieldNext ==
    \/ Focus
    \/ TypeChar
    \/ TypeOver
    \/ Backspace
    \/ Blur
    \/ ClearField
    \/ ExampleField

FieldSpec == FieldInit /\ [][FieldNext]_vars

(***************************************************************************)
(* Vocabulary of the properties.                                           *)
(***************************************************************************)
\* a finite number > 0 / >= 0
Positive(x) == x.k = "fin" /\ Sign(x) > 0

NonNegative(x) == x.k = "fin" /\ Sign(x) >= 0

\* NaN, non-finite or <= 0
Invalid(x) == ~Positive(x)

ValidPnlArgs ==
    /\ Positive(args.entryPrice)
    /\ Positive(args.exitPrice)
    /\ Positive(args.quantity)
    /\ (args.feeRate = Undefined \/ NonNegative(args.feeRate))

\* the fee rate in force: 0 when omitted
FeeRateOf(a) == IF a.feeRate = Undefined THEN Zero ELSE a.feeRate

OtherSide(side) == IF side = "long" THEN "short" ELSE "long"

(***************************************************************************)
(* C1: for every valid input calcPnl returns grossPnl = (exitPrice -       *)
(* entryPrice) * quantity for a long and (entryPrice - exitPrice) *        *)
(* quantity for a short; the sign is determined only by side (the other    *)
(* side on the same input gives the negated amount).                       *)
(***************************************************************************)
C1_GrossPnl ==
    (op = "calcPnl" /\ ValidPnlArgs) =>
        /\ ~ret.threw
        /\ ret.grossPnl =
              IF args.side = "long"
              THEN Mul(Sub(args.exitPrice, args.entryPrice), args.quantity)
              ELSE Mul(Sub(args.entryPrice, args.exitPrice), args.quantity)
        /\ calcPnl([args EXCEPT !.side = OtherSide(args.side)]).grossPnl
              = Neg(ret.grossPnl)

C1_Witness ==
    /\ op = "calcPnl"
    /\ ValidPnlArgs
    /\ args.side = "short"
    /\ Lt(args.entryPrice, args.exitPrice)
    /\ Lt(ret.grossPnl, Zero)

(***************************************************************************)
(* C2: for every valid input the record returned by calcPnl has            *)
(* fees = feeRate * (entryPrice*quantity + exitPrice*quantity), feeRate    *)
(* being 0 when omitted, netPnl = grossPnl - fees and                      *)
(* roiOnNotionalEntry = netPnl / (entryPrice*quantity).                    *)
(***************************************************************************)
C2_FeesNetRoi ==
    (op = "calcPnl" /\ ValidPnlArgs) =>
        /\ ~ret.threw
        /\ ret.fees = Mul(FeeRateOf(args),
                          Add(Mul(args.entryPrice, args.quantity),
                              Mul(args.exitPrice, args.quantity)))
        /\ ret.netPnl = Sub(ret.grossPnl, ret.fees)
        /\ ret.roiOnNotionalEntry =
              Div(ret.netPnl, Mul(args.entryPrice, args.quantity))

C2_Witness ==
    /\ op = "calcPnl"
    /\ ValidPnlArgs
    /\ args.feeRate # Undefined
    /\ args.entryPrice # args.exitPrice
    /\ Gt(ret.fees, Zero)
    /\ Lt(ret.netPnl, ret.grossPnl)

(***************************************************************************)
(* C3: calcPnl throws whenever entryPrice, exitPrice or quantity is NaN,   *)
(* non-finite or <= 0, or feeRate is NaN, non-finite or < 0; it returns a  *)
(* result for every other input.                                           *)
(***************************************************************************)
C3_PnlValidation ==
    (op = "calcPnl") =>
        (ret.threw <=>
            \/ Invalid(args.entryPrice)
            \/ Invalid(args.exitPrice)
            \/ Invalid(args.quantity)
            \/ (args.feeRate # Undefined /\ ~NonNegative(args.feeRate)))

C3_Witness ==
    /\ op = "calcPnl"
    /\ Positive(args.entryPrice)
    /\ Positive(args.exitPrice)
    /\ Positive(args.quantity)
    /\ args.feeRate = NaN
    /\ ret.threw

\* every leg has a finite price > 0 and a finite quantity > 0
ValidLegs(legs) ==
    \A i \in 1..Len(legs) : Positive(legs[i].price) /\ Positive(legs[i].quantity)

\* sum of the quantities, and of price * quantity, over legs[1..i]
RECURSIVE SumQty(_, _)
SumQty(legs, i) ==
    IF i = 0 THEN Zero ELSE Add(SumQty(legs, i - 1), legs[i].quantity)

RECURSIVE SumCost(_, _)
SumCost(legs, i) ==
    IF i = 0 THEN Zero
    ELSE Add(SumCost(legs, i - 1), Mul(legs[i].price, legs[i].quantity))

(***************************************************************************)
(* C4: for every non-empty list of legs with all prices and quantities     *)
(* finite and > 0, calcAvgEntry returns totalQty = sum of the quantities,  *)
(* totalCost = sum of price_i * quantity_i and avgPrice = totalCost /      *)
(* totalQty; calcAvg2Leg returns the same three values for the same two    *)
(* legs.                                                                   *)
(***************************************************************************)
C4_AvgEntryTotals ==
    /\ (op = "calcAvgEntry" /\ Len(args.legs) > 0 /\ ValidLegs(args.legs)) =>
          /\ ~ret.threw
          /\ ret.totalQty = SumQty(args.legs, Len(args.legs))
          /\ ret.totalCost = SumCost(args.legs, Len(args.legs))
          /\ ret.avgPrice = Div(SumCost(args.legs, Len(args.legs)),
                                SumQty(args.legs, Len(args.legs)))
    /\ (op = "calcAvg2Leg" /\ ValidLegs(args.legs)) =>
          /\ ~ret.threw
          /\ ~calcAvgEntry(args.legs).threw
          /\ ret.totalQty = calcAvgEntry(args.legs).totalQty
          /\ ret.totalCost = calcAvgEntry(args.legs).totalCost
          /\ ret.avgPrice = calcAvgEntry(args.legs).avgPrice

C4_Witness ==
    /\ op = "calcAvg2Leg"
    /\ ValidLegs(args.legs)
    /\ args.legs[1].price # args.legs[2].price
    /\ args.legs[1].quantity # args.legs[2].quantity
    /\ ret.avgPrice = calcAvgEntry(args.legs).avgPrice
    /\ ret.totalCost = SumCost(args.legs, 2)

(***************************************************************************)
(* C5: for all legs (p1,q1), (p2,q2) with all four values finite and > 0,  *)
(* the two-leg average price (of calcAvgEntry and of calcAvg2Leg) lies     *)
(* strictly between min(p1,p2) and max(p1,p2) when p1 # p2, and equals p1  *)
(* when p1 = p2.                                                           *)
(***************************************************************************)
C5_AvgBetweenLegs ==
    (/\ op \in {"calcAvgEntry", "calcAvg2Leg"}
     /\ Len(args.legs) = 2
     /\ ValidLegs(args.legs)) =>
        LET p1 == args.legs[1].price
            p2 == args.legs[2].price
        IN  /\ ~ret.threw
            /\ IF p1 # p2
               THEN /\ Lt(MathMin(p1, p2), ret.avgPrice)
                    /\ Lt(ret.avgPrice, MathMax(p1, p2))
               ELSE ret.avgPrice = p1

C5_Witness ==
    /\ op = "calcAvg2Leg"
    /\ ValidLegs(args.legs)
    /\ Lt(args.legs[2].price, args.legs[1].price)
    /\ Lt(args.legs[1].quantity, args.legs[2].quantity)
    /\ Lt(args.legs[2].price, ret.avgPrice)
    /\ Lt(ret.avgPrice, args.legs[1].price)

(***************************************************************************)
(* C6: for every positive price/quantity pair, average-entry with a single *)
(* leg (calcAvgEntry on a one-element list, and calcTwoLegAverage with no  *)
(* second leg supplied) returns an average price equal to that leg's price *)
(* and a total quantity equal to that leg's quantity.                      *)
(***************************************************************************)
C6_SingleLeg ==
    /\ (op = "calcAvgEntry" /\ Len(args.legs) = 1 /\ ValidLegs(args.legs)) =>
          /\ ~ret.threw
          /\ ret.avgPrice = args.legs[1].price
          /\ ret.totalQty = args.legs[1].quantity
    /\ (/\ op = "calcTwoLegAverage"
        /\ args.entry2Price = Undefined
        /\ args.entry2Qty = Undefined
        /\ Positive(args.entry1Price)
        /\ Positive(args.entry1Qty)) =>
          /\ ~ret.threw
          /\ ret.avgEntry = args.entry1Price
          /\ ret.totalQty = args.entry1Qty

C6_Witness ==
    /\ op = "calcTwoLegAverage"
    /\ args.entry2Price = Undefined
    /\ args.entry2Qty = Undefined
    /\ Positive(args.entry1Price)
    /\ Positive(args.entry1Qty)
    /\ args.entry1Qty # One
    /\ ~ret.hasSecondLeg
    /\ ret.avgEntry = args.entry1Price

(***************************************************************************)
(* C7: the strict average-entry operations (calcAvgEntry, calcAvg2Leg,     *)
(* compareAvgPnl) throw, and so never return a zero or NaN average,        *)
(* whenever a required leg's price or quantity is NaN, non-finite          *)
(* (including +Infinity) or <= 0; calcAvgEntry also throws on an empty     *)
(* list.  calcAvg2Leg tests only "> 0", which +Infinity passes.            *)
(***************************************************************************)
C7_StrictAvgRejects ==
    /\ (op \in {"calcAvgEntry", "calcAvg2Leg"}
            /\ (Len(args.legs) = 0 \/ ~ValidLegs(args.legs))) =>
          ret.threw
    /\ (op = "compareAvgPnl"
            /\ (\/ Invalid(args.initialPrice)
                \/ Invalid(args.initialQty)
                \/ Invalid(args.addedPrice)
                \/ Invalid(args.addedQty))) =>
          ret.threw

(***************************************************************************)
(* C8: calcTwoLegAverage includes the second leg, with hasSecondLeg =      *)
(* TRUE, only when that leg's price and quantity are both finite and > 0;  *)
(* in every other case the second leg is treated as absent and totalQty    *)
(* and avgEntry equal the single-leg values of leg 1.  The code does not   *)
(* test the second price for positivity.                                   *)
(***************************************************************************)
C8_SecondLegOnlyIfValid ==
    (op = "calcTwoLegAverage") =>
        LET second == Positive(args.entry2Price) /\ Positive(args.entry2Qty)
            single == calcTwoLegAverage([args EXCEPT !.entry2Price = Undefined,
                                                     !.entry2Qty = Undefined])
        IN  /\ ret.hasSecondLeg <=> second
            /\ ~second => /\ ret.totalQty = single.totalQty
                          /\ ret.avgEntry = single.avgEntry

\* the liquidation inputs calcLiquidationPrice accepts
ValidLiqArgs ==
    /\ Positive(args.entryPrice)
    /\ Positive(args.leverage)
    /\ (args.mmr = Undefined \/ NonNegative(args.mmr))

\* the maintenance margin rate in force: 0.005 when omitted
MmrOf(a) == IF a.mmr = Undefined THEN Rat(5, 1000) ELSE a.mmr

\* the estimate before the clamp to [0, MAX_SAFE_INTEGER]
LiqEstimate(a) ==
    IF a.side = "long"
    THEN MathMax(Zero,
            MathMin(a.entryPrice,
                    Mul(a.entryPrice,
                        Add(Sub(One, Div(One, a.leverage)), MmrOf(a)))))
    ELSE MathMax(a.entryPrice,
                 Mul(a.entryPrice,
                     Sub(Add(One, Div(One, a.leverage)), MmrOf(a))))

(***************************************************************************)
(* C9 as stated: for every valid input calcLiquidationPrice returns        *)
(* max(0, min(entryPrice, entryPrice * (1 - 1/leverage + mmr))) for a long *)
(* and max(entryPrice, entryPrice * (1 + 1/leverage - mmr)) for a short,   *)
(* mmr being 0.005 when omitted.                                           *)
(***************************************************************************)
C9_AsStated ==
    (op = "calcLiquidationPrice" /\ ValidLiqArgs) =>
        /\ ~ret.threw
        /\ ret.liquidationPrice = LiqEstimate(args)

(***************************************************************************)
(* C9 amended: for every valid input calcLiquidationPrice returns the      *)
(* smaller of Number.MAX_SAFE_INTEGER and the value stated: min(MAX_SAFE_  *)
(* INTEGER, max(0, min(entryPrice, entryPrice * (1 - 1/leverage + mmr))))  *)
(* for a long, min(MAX_SAFE_INTEGER, max(entryPrice, entryPrice * (1 +     *)
(* 1/leverage - mmr))) for a short, mmr being 0.005 when omitted (long,    *)
(* entry 100, leverage 10, mmr omitted or 0.005 gives 90.5).               *)
(***************************************************************************)
C9_LiqFormulaCapped ==
    /\ (op = "calcLiquidationPrice" /\ ValidLiqArgs) =>
          /\ ~ret.threw
          /\ ret.liquidationPrice = MathMin(MAX_SAFE_INTEGER, LiqEstimate(args))
          /\ ret.assumptions.mmr = MmrOf(args)
    /\ (op = "none") => \A mmr \in {Undefined, Rat(5, 1000)} :
          calcLiquidationPrice([side |-> "long", entryPrice |-> Rat(100, 1),
                                leverage |-> Rat(10, 1), mmr |-> mmr]).liquidationPrice
             = Rat(905, 10)

C9_Witness ==
    /\ op = "calcLiquidationPrice"
    /\ ValidLiqArgs
    /\ args.side = "short"
    /\ args.mmr = Undefined
    /\ Lt(args.entryPrice, MAX_SAFE_INTEGER)
    /\ Gt(LiqEstimate(args), MAX_SAFE_INTEGER)
    /\ ret.liquidationPrice = MAX_SAFE_INTEGER

(***************************************************************************)
(* C10: for every input calcLiquidationPrice accepts, the returned         *)
(* liquidationPrice satisfies 0 <= liquidationPrice <= entryPrice for a    *)
(* long and liquidationPrice >= entryPrice for a short, also after the     *)
(* final clamp to [0, Number.MAX_SAFE_INTEGER].  The clamp lowers a        *)
(* short's price below an entryPrice above MAX_SAFE_INTEGER.               *)
(***************************************************************************)
C10_LiqOnSafeSide ==
    (op = "calcLiquidationPrice" /\ ~ret.threw) =>
        IF args.side = "long"
        THEN Le(Zero, ret.liquidationPrice) /\ Le(ret.liquidationPrice, args.entryPrice)
        ELSE Ge(ret.liquidationPrice, args.entryPrice)

(***************************************************************************)
(* C11: calcLiquidationPrice throws whenever entryPrice or leverage is     *)
(* NaN, non-finite or <= 0, or a supplied mmr is NaN, non-finite or < 0,   *)
(* and returns a result otherwise.                                         *)
(***************************************************************************)
C11_LiqValidation ==
    (op = "calcLiquidationPrice") =>
        (ret.threw <=>
            \/ Invalid(args.entryPrice)
            \/ Invalid(args.leverage)
            \/ (args.mmr # Undefined /\ ~NonNegative(args.mmr)))

C11_Witness ==
    /\ op = "calcLiquidationPrice"
    /\ Positive(args.entryPrice)
    /\ args.leverage = Zero
    /\ args.mmr = Undefined
    /\ ret.threw

\* all four inputs of qtyForTargetAvg are finite and > 0
ValidTargetArgs ==
    /\ Positive(args.currentPrice)
    /\ Positive(args.currentQty)
    /\ Positive(args.targetAvg)
    /\ Positive(args.newPrice)

\* x = currentQty * (targetAvg - currentPrice) / (newPrice - targetAvg)
SolvedQty(a) ==
    Div(Mul(a.currentQty, Sub(a.targetAvg, a.currentPrice)),
        Sub(a.newPrice, a.targetAvg))

(***************************************************************************)
(* C12: for all strictly positive currentPrice, currentQty, targetAvg and  *)
(* newPrice, qtyForTargetAvg returns the tag invalid exactly when newPrice *)
(* equals targetAvg; otherwise, with x = currentQty * (targetAvg -         *)
(* currentPrice) / (newPrice - targetAvg), it returns reverse carrying |x| *)
(* when x < 0 and ok carrying x when x >= 0.                               *)
(***************************************************************************)
C12_TargetTags ==
    (op = "qtyForTargetAvg" /\ ValidTargetArgs) =>
        /\ ~ret.threw
        /\ (ret.type = "invalid") <=> (args.newPrice = args.targetAvg)
        /\ (args.newPrice # args.targetAvg) =>
              IF Lt(SolvedQty(args), Zero)
              THEN ret.type = "reverse" /\ ret.qty = Neg(SolvedQty(args))
              ELSE ret.type = "ok" /\ ret.qty = SolvedQty(args)

C12_Witness ==
    /\ op = "qtyForTargetAvg"
    /\ ValidTargetArgs
    /\ ret.type = "reverse"
    /\ Gt(ret.qty, Zero)

(***************************************************************************)
(* C13: whenever qtyForTargetAvg returns ok with a quantity x > 0, adding  *)
(* the leg (newPrice, x) to the position (currentPrice, currentQty) moves  *)
(* the blended average to the target: calcAvgEntry of the two legs has     *)
(* avgPrice = targetAvg.                                                   *)
(***************************************************************************)
C13_TargetReached ==
    (op = "qtyForTargetAvg" /\ ~ret.threw /\ ret.type = "ok" /\ Gt(ret.qty, Zero)) =>
        LET blended == calcAvgEntry(<<[price |-> args.currentPrice,
                                      quantity |-> args.currentQty],
                                     [price |-> args.newPrice,
                                      quantity |-> ret.qty]>>)
        IN  ~blended.threw /\ blended.avgPrice = args.targetAvg

C13_Witness ==
    /\ op = "qtyForTargetAvg"
    /\ ~ret.threw
    /\ ret.type = "ok"
    /\ Gt(ret.qty, Zero)
    /\ Lt(args.currentPrice, args.targetAvg)
    /\ Lt(args.targetAvg, args.newPrice)

(***************************************************************************)
(* C14: qtyForTargetAvg throws whenever any of currentPrice, currentQty,   *)
(* targetAvg, newPrice is NaN, non-finite or <= 0, and this check takes    *)
(* precedence over the tags: a tagged outcome is returned only when all    *)
(* four inputs are strictly positive.                                      *)
(***************************************************************************)
C14_TargetValidationFirst ==
    (op = "qtyForTargetAvg") => (ret.threw <=> ~ValidTargetArgs)

C14_Witness ==
    /\ op = "qtyForTargetAvg"
    /\ Positive(args.currentPrice)
    /\ Positive(args.currentQty)
    /\ args.newPrice = Zero
    /\ args.targetAvg = Zero
    /\ ret.threw

(***************************************************************************)
(* The prop-firm page: P&L at a mark price                                 *)
(***************************************************************************)
\* > 0 as a number: a positive finite number or +Infinity
StrictlyPositive(x) == x = PosInf \/ Positive(x)

\* the value spec of the mode in use is positive and finite
ValidValueSpec ==
    IF args.mode = "futures"
    THEN Positive(args.pointValueUsd)
    ELSE Positive(args.pipSize) /\ Positive(args.pipValueUsd)

ValidPnlAtPriceArgs ==
    /\ Positive(args.entryPrice)
    /\ Positive(args.markPrice)
    /\ Positive(args.qty)
    /\ ValidValueSpec

\* +1 for a long, -1 for a short
DirectionSign == IF args.side = "long" THEN Rat(1, 1) ELSE Rat(-1, 1)

\* C15: for every valid input pnlAtPrice returns
\* (markPrice - entryPrice) * directionSign * pointValue * quantity in futures
\* mode and ((markPrice - entryPrice) / pipSize) * directionSign *
\* pipValuePerLot * quantity in forex mode, directionSign being +1 for a long
\* and -1 for a short.
C15_PnlAtPrice ==
    (op = "pnlAtPrice" /\ ValidPnlAtPriceArgs) =>
        /\ ~ret.threw
        /\ ret.value =
             IF args.mode = "futures"
             THEN Mul(Mul(Mul(Sub(args.markPrice, args.entryPrice), DirectionSign),
                          args.pointValueUsd), args.qty)
             ELSE Mul(Mul(Mul(Div(Sub(args.markPrice, args.entryPrice),
                                  args.pipSize), DirectionSign),
                          args.pipValueUsd), args.qty)

\* a short in forex mode with a pip size other than 1 and a loss
C15_Witness ==
    /\ op = "pnlAtPrice"
    /\ ValidPnlAtPriceArgs
    /\ args.mode = "forex"
    /\ args.side = "short"
    /\ args.pipSize # One
    /\ ~ret.threw
    /\ Lt(ret.value, Zero)

\* C16: pnlAtPrice throws whenever entryPrice, markPrice or quantity is not
\* strictly positive (NaN included), or, in futures mode, the point value is
\* not strictly positive, or, in forex mode, the pip size or the pip value is
\* not strictly positive.
C16_PnlAtPriceThrows ==
    (/\ op = "pnlAtPrice"
     /\ \/ ~StrictlyPositive(args.entryPrice)
        \/ ~StrictlyPositive(args.markPrice)
        \/ ~StrictlyPositive(args.qty)
        \/ (args.mode = "futures" /\ ~StrictlyPositive(args.pointValueUsd))
        \/ (args.mode = "forex" /\ ~StrictlyPositive(args.pipSize))
        \/ (args.mode = "forex" /\ ~StrictlyPositive(args.pipValueUsd)))
    => ret.threw

\* a forex call whose only flaw is a pip size of zero
C16_Witness ==
    /\ op = "pnlAtPrice"
    /\ Positive(args.entryPrice)
    /\ Positive(args.markPrice)
    /\ Positive(args.qty)
    /\ args.mode = "forex"
    /\ args.pipSize = Zero
    /\ Positive(args.pipValueUsd)
    /\ ret.threw

(***************************************************************************)
(* The point value of a futures contract                                   *)
(***************************************************************************)
\* the value both helpers must return when it is a positive number: the
\* override when it is finite and > 0, otherwise tickValue / tickSize when
\* both are finite and > 0
OverrideUsable == Positive(args.pointValueUsd)

TicksUsable == Positive(args.tickSize) /\ Positive(args.tickValueUsd)

\* the page helper alone: override, else the quotient, else NaN
PageDerivedPointValue ==
    op = "derivePointValueUsd" =>
        IF OverrideUsable THEN ret.value = args.pointValueUsd
        ELSE IF TicksUsable THEN ret.value = Div(args.tickValueUsd, args.tickSize)
        ELSE ret.value = NaN

\* C17: derivePointValueUsd returns the override point value when it is
\* finite and > 0, whatever the tick fields hold; otherwise tickValue /
\* tickSize when both are finite and > 0; in the remaining cases a value that
\* is not strictly positive (NaN in the page helper, 0 in the prop math
\* helper).
C17_DerivedPointValue ==
    /\ PageDerivedPointValue
    /\ op = "derivePointValueUsdOfSpec" =>
        IF OverrideUsable THEN ret.value = args.pointValueUsd
        ELSE IF TicksUsable THEN ret.value = Div(args.tickValueUsd, args.tickSize)
        ELSE ~StrictlyPositive(ret.value)

(***************************************************************************)
(* The breach estimator                                                    *)
(***************************************************************************)
ValidBreachArgs ==
    /\ Positive(args.avgEntry)
    /\ Positive(args.qty)
    /\ Positive(args.remainingDrawdownUsd)
    /\ ValidValueSpec

\* averageEntry - distance for a long, averageEntry + distance for a short
AdversePrice(distance) ==
    IF args.side = "long" THEN Sub(args.avgEntry, distance)
    ELSE Add(args.avgEntry, distance)

\* the point value the page resolves from the tick fields of a FuturesSpec
ResolvedPointValue ==
    derivePointValueUsd(args.spec.tickSize, args.spec.tickValueUsd,
                        args.spec.pointValueUsd)

\* what the page computes on the input of a prop math helper
PageBreachOfFutures ==
    breachPrice([mode |-> "futures", side |-> args.side,
                 avgEntry |-> args.avgEntry, qty |-> args.contracts,
                 remainingDrawdownUsd |-> args.remainingDrawdownUsd,
                 pointValueUsd |-> ResolvedPointValue,
                 pipSize |-> Undefined, pipValueUsd |-> Undefined])

PageBreachOfForex ==
    breachPrice([mode |-> "forex", side |-> args.side,
                 avgEntry |-> args.avgEntry, qty |-> args.lots,
                 remainingDrawdownUsd |-> args.remainingDrawdownUsd,
                 pointValueUsd |-> Undefined,
                 pipSize |-> args.spec.pipSize,
                 pipValueUsd |-> args.spec.pipValueUsd])

ValidFuturesBreachArgs ==
    /\ Positive(args.avgEntry)
    /\ Positive(args.contracts)
    /\ Positive(args.remainingDrawdownUsd)
    /\ Positive(ResolvedPointValue)

ValidForexBreachArgs ==
    /\ Positive(args.avgEntry)
    /\ Positive(args.lots)
    /\ Positive(args.remainingDrawdownUsd)
    /\ Positive(args.spec.pipSize)
    /\ Positive(args.spec.pipValueUsd)

\* C18: for valid input the breach estimator returns, in futures mode,
\* maxAdverse = remainingDrawdown / (pointValue * quantity), breach =
\* averageEntry - maxAdverse for a long and + for a short, unit points; in
\* forex mode maxAdverse = remainingDrawdown / (pipValue * quantity), breach =
\* averageEntry -/+ maxAdverse * pipSize, unit pips.  The page's breachPrice
\* and the helpers futuresBreachPrice and forexBreachPrice agree on them.
C18_BreachFormulas ==
    /\ (op = "breachPrice" /\ ValidBreachArgs) =>
        /\ ~ret.threw
        /\ IF args.mode = "futures"
           THEN LET maxAdverse == Div(args.remainingDrawdownUsd,
                                      Mul(args.pointValueUsd, args.qty))
                IN  /\ ret.maxAdverse = maxAdverse
                    /\ ret.breach = AdversePrice(maxAdverse)
                    /\ ret.unit = "points"
           ELSE LET maxAdverse == Div(args.remainingDrawdownUsd,
                                      Mul(args.pipValueUsd, args.qty))
                IN  /\ ret.maxAdverse = maxAdverse
                    /\ ret.breach = AdversePrice(Mul(maxAdverse, args.pipSize))
                    /\ ret.unit = "pips"
    /\ (op = "futuresBreachPrice" /\ ValidFuturesBreachArgs) =>
        /\ ~PageBreachOfFutures.threw
        /\ ret.maxAdversePoints = PageBreachOfFutures.maxAdverse
        /\ ret.breachPrice = PageBreachOfFutures.breach
        /\ ret.maxAdversePoints =
             Div(args.remainingDrawdownUsd, Mul(ResolvedPointValue, args.contracts))
    /\ (op = "forexBreachPrice" /\ ValidForexBreachArgs) =>
        /\ ~PageBreachOfForex.threw
        /\ ret.maxAdversePips = PageBreachOfForex.maxAdverse
        /\ ret.breachPrice = PageBreachOfForex.breach
        /\ ret.maxAdversePips =
             Div(args.remainingDrawdownUsd, Mul(args.spec.pipValueUsd, args.lots))

\* a short in forex mode on the page, with a pip size other than 1
C18_Witness ==
    /\ op = "breachPrice"
    /\ ValidBreachArgs
    /\ args.mode = "forex"
    /\ args.side = "short"
    /\ args.pipSize # One
    /\ ~ret.threw
    /\ Gt(ret.breach, args.avgEntry)

\* a futures helper call whose point value comes from the tick fields, and a
\* forex helper call
C18_WitnessFuturesHelper ==
    /\ op = "futuresBreachPrice"
    /\ ValidFuturesBreachArgs
    /\ ~Positive(args.spec.pointValueUsd)
    /\ Lt(ret.breachPrice, args.avgEntry)

C18_WitnessForexHelper ==
    /\ op = "forexBreachPrice"
    /\ ValidForexBreachArgs
    /\ args.spec.pipSize # One
    /\ Gt(ret.breachPrice, args.avgEntry)

\* pnlAtPrice at the breach price: same mode, side, quantity and value spec,
\* entryPrice = averageEntry
PnlAtBreach ==
    pnlAtPrice([mode |-> args.mode, side |-> args.side,
                entryPrice |-> args.avgEntry, qty |-> args.qty,
                markPrice |-> ret.breach,
                pointValueUsd |-> args.pointValueUsd, pipSize |-> args.pipSize,
                pipValueUsd |-> args.pipValueUsd])

\* C19: for every valid input whose breach price is > 0, pnlAtPrice at
\* markPrice = breachPrice, with the same mode, side, quantity and value spec
\* and entryPrice = averageEntry, equals -remainingDrawdown.
C19_BreachLosesDrawdown ==
    (/\ op = "breachPrice"
     /\ ValidBreachArgs
     /\ ~ret.threw
     /\ Gt(ret.breach, Zero))
    => /\ ~PnlAtBreach.threw
       /\ PnlAtBreach.value = Neg(args.remainingDrawdownUsd)

\* a long in forex mode whose breach price is positive and off the entry by
\* a distance other than the number of pips
C19_Witness ==
    /\ op = "breachPrice"
    /\ ValidBreachArgs
    /\ args.mode = "forex"
    /\ args.side = "long"
    /\ args.pipSize # One
    /\ ~ret.threw
    /\ Gt(ret.breach, Zero)
    /\ PnlAtBreach.value = Neg(args.remainingDrawdownUsd)

\* the breach estimate with another remaining drawdown, all else equal
BreachWith(remaining) ==
    breachPrice([args EXCEPT !.remainingDrawdownUsd = remaining])

LargerDrawdowns ==
    {r \in Amounts : Positive(r) /\ Gt(r, args.remainingDrawdownUsd)}

\* C20: with all other inputs fixed and valid, a strictly larger
\* remainingDrawdown gives a strictly larger maxAdverse and a breach price
\* strictly further from averageEntry in the adverse direction: lower for a
\* long, higher for a short.
C20_BreachMonotone ==
    (op = "breachPrice" /\ ValidBreachArgs) =>
        \A r \in LargerDrawdowns :
            /\ ~ret.threw
            /\ ~BreachWith(r).threw
            /\ Gt(BreachWith(r).maxAdverse, ret.maxAdverse)
            /\ IF args.side = "long"
               THEN /\ Lt(ret.breach, args.avgEntry)
                    /\ Lt(BreachWith(r).breach, ret.breach)
               ELSE /\ Gt(ret.breach, args.avgEntry)
                    /\ Gt(BreachWith(r).breach, ret.breach)

\* a short with a larger drawdown to compare with, whose breach is higher
C20_Witness ==
    /\ op = "breachPrice"
    /\ ValidBreachArgs
    /\ args.side = "short"
    /\ ~ret.threw
    /\ \E r \in LargerDrawdowns : Gt(BreachWith(r).breach, ret.breach)

(***************************************************************************)
(* The prop-firm page: effective remaining allowance and risk to stop      *)
(***************************************************************************)
Usable(x) == Positive(x)

\* C21: the effective remaining allowance used for the breach computation is
\* min(remainingDrawdown, dailyLossRemaining) when both are finite and > 0,
\* the one that is finite and > 0 when only one is, and absent (NaN) when
\* neither is; in the last case no breach result is produced.
C21_EffectiveRemaining ==
    op = "breach" =>
        LET a == args.remainingDrawdownUsd
            b == args.dailyLossRemainingUsd
        IN  /\ (Usable(a) /\ Usable(b)) =>
                ret.effectiveRemaining = (IF Lt(b, a) THEN b ELSE a)
            /\ (Usable(a) /\ ~Usable(b)) => ret.effectiveRemaining = a
            /\ (~Usable(a) /\ Usable(b)) => ret.effectiveRemaining = b
            /\ (~Usable(a) /\ ~Usable(b)) =>
                /\ ret.effectiveRemaining = NaN
                /\ ret.breach = null
            /\ (ret.breach # null) =>
                ret.breach = breachPrice([mode |-> args.mode, side |-> args.side,
                                          avgEntry |-> avg(args).avgPrice,
                                          qty |-> avg(args).totalQty,
                                          remainingDrawdownUsd |-> ret.effectiveRemaining,
                                          pointValueUsd |-> args.pointValueUsd,
                                          pipSize |-> args.pipSize,
                                          pipValueUsd |-> args.pipValueUsd])

\* both ceilings usable, the daily one smaller, and a breach result built on it
C21_Witness ==
    /\ op = "breach"
    /\ Usable(args.remainingDrawdownUsd)
    /\ Usable(args.dailyLossRemainingUsd)
    /\ Lt(args.dailyLossRemainingUsd, args.remainingDrawdownUsd)
    /\ ret.effectiveRemaining = args.dailyLossRemainingUsd
    /\ ret.breach # null

\* neither ceiling usable, everything else valid: no breach result
C21_WitnessNeither ==
    /\ op = "breach"
    /\ ~Usable(args.remainingDrawdownUsd)
    /\ ~Usable(args.dailyLossRemainingUsd)
    /\ avg(args) # null
    /\ ret.breach = null

(***************************************************************************)
(* The breach estimators on invalid input                                  *)
(***************************************************************************)
\* an estimator produced no result: it threw, or it returned no number as
\* the breach price
NoBreachResult(r, price) == r.threw \/ IsNaN(price)

\* the page's breachPrice alone does as claimed
PageBreachNoResult ==
    (/\ op = "breachPrice"
     /\ \/ ~StrictlyPositive(args.avgEntry)
        \/ ~StrictlyPositive(args.qty)
        \/ ~StrictlyPositive(args.remainingDrawdownUsd))
    => ret.threw

\* C22: every breach-price estimator (breachPrice of the prop-firm page,
\* futuresBreachPrice and forexBreachPrice of the prop math helpers)
\* produces no result, rather than a zero adverse move or a breach price
\* equal to the entry, whenever averageEntry, quantity (contracts/lots) or
\* the remaining drawdown is not strictly positive.
C22_BreachNoResult ==
    /\ PageBreachNoResult
    /\ (/\ op = "futuresBreachPrice"
        /\ \/ ~StrictlyPositive(args.avgEntry)
           \/ ~StrictlyPositive(args.contracts)
           \/ ~StrictlyPositive(args.remainingDrawdownUsd))
       => NoBreachResult(ret, ret.breachPrice)
    /\ (/\ op = "forexBreachPrice"
        /\ \/ ~StrictlyPositive(args.avgEntry)
           \/ ~StrictlyPositive(args.lots)
           \/ ~StrictlyPositive(args.remainingDrawdownUsd))
       => NoBreachResult(ret, ret.breachPrice)


(***************************************************************************)
(* The prop-firm page: risk to stop                                        *)
(***************************************************************************)
PropLegsValid ==
    /\ Positive(args.leg1Price)
    /\ Positive(args.leg1Qty)
    /\ Positive(args.leg2Price)
    /\ Positive(args.leg2Qty)

\* pnlAtPrice with entryPrice = the two-leg average price, quantity = the
\* total quantity and markPrice = stopPrice
PnlAtStop ==
    pnlAtPrice([mode |-> args.mode, side |-> args.side,
                entryPrice |-> Div(Add(Mul(args.leg1Price, args.leg1Qty),
                                       Mul(args.leg2Price, args.leg2Qty)),
                                   Add(args.leg1Qty, args.leg2Qty)),
                qty |-> Add(args.leg1Qty, args.leg2Qty),
                markPrice |-> args.stopPrice,
                pointValueUsd |-> args.pointValueUsd, pipSize |-> args.pipSize,
                pipValueUsd |-> args.pipValueUsd])

\* C23: the prop-firm page's risk-to-stop equals the absolute value of
\* pnlAtPrice evaluated with entryPrice = the two-leg average price, quantity
\* = the total quantity and markPrice = stopPrice (hence >= 0 for either
\* side), and it is absent (null) whenever the two-leg average is invalid or
\* stopPrice is not > 0.
C23_RiskToStop ==
    op = "riskToStop" =>
        IF ~PropLegsValid \/ ~StrictlyPositive(args.stopPrice)
        THEN ret.riskToStop = null
        ELSE IF PnlAtStop.threw THEN ret.riskToStop = null
        ELSE /\ ret.riskToStop = MathAbs(PnlAtStop.value)
             /\ Ge(ret.riskToStop, Zero)

\* a stop at which the signed P&L is a loss, reported as a positive amount
C23_Witness ==
    /\ op = "riskToStop"
    /\ PropLegsValid
    /\ Positive(args.stopPrice)
    /\ ~PnlAtStop.threw
    /\ Lt(PnlAtStop.value, Zero)
    /\ ret.riskToStop = Neg(PnlAtStop.value)

\* valid legs and no stop price: no risk
C23_WitnessNoStop ==
    /\ op = "riskToStop"
    /\ PropLegsValid
    /\ ~StrictlyPositive(args.stopPrice)
    /\ ret.riskToStop = null

(***************************************************************************)
(* The generic page: the displayed target-average outcome                  *)
(***************************************************************************)
\* C24: in the generic calculator page, after any sequence of input changes
\* the displayed target-average outcome equals qtyForTargetAvg applied to
\* the current leg-1 price, leg-1 quantity, target average and market price
\* (or no outcome when that call fails); in particular a change of the
\* market price alone is reflected in the displayed outcome, never a value
\* computed from an earlier market price.
C24_TargetQtyCurrent ==
    LET r == qtyForTargetAvg([currentPrice |-> page.leg1Price,
                              currentQty |-> page.leg1Qty,
                              targetAvg |-> page.targetAvg,
                              newPrice |-> page.marketPrice])
    IN  page.targetQty = (IF r.threw THEN null ELSE r)

\* the other two memos of the tab always hold the value of the current state
PageAvgCurrent ==
    /\ page.avg = pageAvg(page)
    /\ page.comparison = pageComparison(page)

(***************************************************************************)
(* NumberField                                                             *)
(***************************************************************************)
\* empty, or one of the incomplete numbers
Incomplete(t) ==
    t \in {<<>>, <<".">>, <<"-">>, <<"+">>, <<"-", ".">>, <<"+", ".">>}

\* C25: a NumberField reports not-a-number to the model, never 0, whenever
\* its text is empty or an incomplete number ('.', '-', '+', '-.', '+.'),
\* after any sequence of keystrokes and focus/blur events (including a blur
\* while the text ends with a decimal point).
C25_IncompleteIsNaN ==
    (field.report.made /\ Incomplete(field.report.text)) => IsNaN(field.report.value)

\* the keystrokes alone report as claimed
KeystrokeIncompleteIsNaN ==
    (op = "change" /\ field.report.made /\ Incomplete(field.report.text))
    => IsNaN(field.report.value)

\* the value lies within the min and max the field is given
WithinMinMax(v) ==
    /\ field.min.given => Ge(v, Number(field.min.text))
    /\ field.max.given => Le(v, Number(field.max.text))

\* keystrokes never clamp: after a keystroke the model holds the number the
\* text parses to, or NaN
KeystrokesDoNotClamp ==
    (op = "change" /\ field.report.made) =>
        field.value = (IF isFinite(Number(field.text)) /\ ~Incomplete(field.text)
                       THEN Number(field.text) ELSE NaN)

\* C26: for a NumberField configured with a min and/or max, keystrokes never
\* clamp the value, and once the field loses focus with text that parses to
\* a finite number the value held by the model lies within [min, max] (for
\* every text the field accepts, including text ending in a decimal point).
C26_ClampOnBlur ==
    /\ KeystrokesDoNotClamp
    /\ (op = "blur" /\ isFinite(field.value)) => WithinMinMax(field.value)

\* a blur on a text with no trailing decimal point leaves a value in range
BlurWithoutDotClamps ==
    (op = "blur" /\ isFinite(field.value) /\ ~field.report.made)
    => WithinMinMax(field.value)

\* C27: after the 'clear' action of an input group, every field that the
\* action resets holds not-a-number in the model and, being unfocused,
\* displays empty text, whatever was typed into the field before (including
\* incomplete text such as '-' whose model value was already not-a-number).
C27_ClearEmptiesField ==
    op = "clear" => (IsNaN(field.value) /\ field.text = <<>>)

\* a field that held a number is emptied by clear
ClearEmptiesNumber ==
    [][(ClearField /\ isFinite(field.value)) => field'.text = <<>>]_vars

(***************************************************************************)
(* The generic page: the example button of the average-entry tab           *)
(***************************************************************************)
\* C28: in the generic page's average-entry tab, after any click of the
\* 'example' action, from any prior state (either side, whether or not
\* example mode is already on, clicked once or repeatedly) and once effects
\* have settled, both legs' prices and quantities, the market price and the
\* target average all hold strictly positive values, so the average-entry
\* result and the PnL comparison are present rather than 'Invalid inputs'.
C28_ExampleFillsAll ==
    op = "example" =>
        /\ StrictlyPositive(page.leg1Price)
        /\ StrictlyPositive(page.leg1Qty)
        /\ StrictlyPositive(page.leg2Price)
        /\ StrictlyPositive(page.leg2Qty)
        /\ StrictlyPositive(page.marketPrice)
        /\ StrictlyPositive(page.targetAvg)
        /\ page.avg # null
        /\ page.comparison # null

\* the first click, and any click on the short side, fill every field
ExampleFillsWhenOffOrShort ==
    [][(ClickExample /\ (~page.avgIsExample \/ page.avgSide = "short")) =>
            /\ StrictlyPositive(page'.leg1Price)
            /\ page'.avg # null
            /\ page'.comparison # null]_vars

(***************************************************************************)
(* compareAvgPnl: what the added leg changes                               *)
(***************************************************************************)
ValidCompareArgs ==
    /\ Positive(args.initialPrice)
    /\ Positive(args.initialQty)
    /\ Positive(args.addedPrice)
    /\ Positive(args.addedQty)
    /\ Positive(args.marketPrice)

\* the PnL of the added leg alone at the market price
AddedLegPnl ==
    IF args.side = "long"
    THEN Mul(Sub(args.marketPrice, args.addedPrice), args.addedQty)
    ELSE Mul(Sub(args.addedPrice, args.marketPrice), args.addedQty)

\* C29: for every valid input of compareAvgPnl, delta = pnlNew - pnlOld
\* equals the PnL of the added leg alone at the market price ((marketPrice -
\* addedPrice) * addedQty for a long, (addedPrice - marketPrice) * addedQty
\* for a short), independent of the initial leg's price and quantity;
\* consequently the verdict is 'better' when that amount is positive,
\* 'worse' when negative, and 'same' when it is zero (|delta| < 1e-8).
C29_DeltaIsAddedLegPnl ==
    (op = "compareAvgPnl" /\ ValidCompareArgs) =>
        /\ ~ret.threw
        /\ ret.delta = Sub(ret.pnlNew, ret.pnlOld)
        /\ ret.delta = AddedLegPnl
        /\ ret.verdict =
             IF Lt(MathAbs(AddedLegPnl), Rat(1, 100000000)) THEN "same"
             ELSE IF Gt(AddedLegPnl, Zero) THEN "better"
             ELSE "worse"

\* an added leg whose PnL is positive and below 1e-8: the verdict is same
C29_Witness ==
    /\ op = "compareAvgPnl"
    /\ ValidCompareArgs
    /\ Gt(AddedLegPnl, Zero)
    /\ Lt(AddedLegPnl, Rat(1, 100000000))
    /\ ret.verdict = "same"

\* an added leg bought below the market on a position that loses: better
C29_WitnessBetter ==
    /\ op = "compareAvgPnl"
    /\ ValidCompareArgs
    /\ args.side = "long"
    /\ Lt(ret.pnlOld, Zero)
    /\ Gt(AddedLegPnl, Zero)
    /\ ret.verdict = "better"

(***************************************************************************)
(* The two target-average solvers                                          *)
(***************************************************************************)
ValidRequiredArgs ==
    /\ Positive(args.currentAvg)
    /\ Positive(args.currentQty)
    /\ Positive(args.newPrice)
    /\ Positive(args.targetAvg)

\* qtyForTargetAvg on the same position, new price and target
OtherSolver ==
    qtyForTargetAvg([currentPrice |-> args.currentAvg,
                     currentQty |-> args.currentQty,
                     targetAvg |-> args.targetAvg,
                     newPrice |-> args.newPrice])

\* the target lies outside the range spanned by the current and new price
TargetOutsideRange ==
    \/ (Lt(args.targetAvg, args.currentAvg) /\ Lt(args.targetAvg, args.newPrice))
    \/ (Gt(args.targetAvg, args.currentAvg) /\ Gt(args.targetAvg, args.newPrice))

\* C30: the two target-average solvers agree: for all strictly positive
\* currentPrice (currentAvg), currentQty, newPrice and targetAvg,
\* calcRequiredQtyForTargetAvg returns requiredQty equal to the quantity of
\* qtyForTargetAvg whenever the latter is tagged ok, and returns requiredQty
\* = 0 whenever the latter is tagged invalid or reverse (i.e. when newPrice
\* equals the target or the target lies outside the range spanned by the
\* current and new price).
C30_SolversAgree ==
    (op = "calcRequiredQtyForTargetAvg" /\ ValidRequiredArgs) =>
        /\ ~ret.threw
        /\ ~OtherSolver.threw
        /\ (OtherSolver.type = "ok") => ret.requiredQty = OtherSolver.qty
        /\ (OtherSolver.type \in {"invalid", "reverse"}) => ret.requiredQty = Zero
        /\ (OtherSolver.type \in {"invalid", "reverse"}) <=>
                (Eq(args.newPrice, args.targetAvg) \/ TargetOutsideRange)

\* a target strictly between the current and the new price: both solvers
\* return the same positive quantity
C30_Witness ==
    /\ op = "calcRequiredQtyForTargetAvg"
    /\ ValidRequiredArgs
    /\ OtherSolver.type = "ok"
    /\ Gt(OtherSolver.qty, Zero)
    /\ ret.requiredQty = OtherSolver.qty

\* a target beyond both prices: reverse on one side, 0 on the other
C30_WitnessReverse ==
    /\ op = "calcRequiredQtyForTargetAvg"
    /\ ValidRequiredArgs
    /\ OtherSolver.type = "reverse"
    /\ ret.requiredQty = Zero

====
